---------------------------- MODULE Spec2Model ----------------------------
(***************************************************************************)
(* Verification model of bearcove/fluke.                                   *)
(*                                                                         *)
(*   PipeSpec   the in-process pipe (crates/fluke-buffet/src/io/pipe.rs):  *)
(*              one writer task, one reader task, a capacity-1 channel.    *)
(*   ParseSpec  the streaming parser helper read_and_parse                 *)
(*              (crates/fluke/src/util.rs) over a RollMut and a reader.    *)
(*   BodySpec   the HTTP/1 body decoders (crates/loona/src/h1/body.rs).    *)
(*   WriteSpec  the HTTP/1 body writers (write_h1_body and its chunks).    *)
(*   PieceSpec  Piece::split_at; ListSpec, the PieceList (piece.rs).       *)
(*   ServeSpec  h2::serve over one connection                              *)
(*              (crates/fluke/src/h2/server.rs).                           *)
(*   AggSpec    the aggregate buffers AggBuf (src/bufpool/agg.rs) and      *)
(*              AggregateBuf (src/parse/aggregate.rs): grow, fill, slice   *)
(*              and split; AggViewSpec, the reads through filled and the   *)
(*              slice iterator.                                            *)
(*   FindSpec   find_substring on an AggSlice (src/bufpool/agg.rs).        *)
(*   LegacySpec the AggBuf based content-length reader (src/h1/body.rs).   *)
(*                                                                         *)
(* Each specification drives its own variables and leaves the other        *)
(* components' variables at their initial values.                          *)
(***************************************************************************)
EXTENDS Integers, Sequences, FiniteSets, TLC

\* ------------------------------------------------------------------ bounds
\* Longest piece a write_owned call is given (0 = the empty piece).
MaxPieceLen == 2
\* Largest reader buffer capacity (0 = a zero-capacity buffer).
MaxCap == 2
\* Number of write_owned calls the writer task makes at most.
MaxWrites == 3
\* Number of read_owned calls the reader task makes at most.
MaxReads == 4

\* Most bytes a RollMut holds filled when read_and_parse is entered.
MaxInitLen == 3
\* Largest max_len read_and_parse is called with.
MaxMaxLen == 3
\* Most bytes the transport still delivers before it reports EOF.
MaxStream == 3
\* Bytes of room one reserved block adds to a RollMut.
BlockCap == 2

\* ------------------------------------------------------------- helpers
Min(a, b) == IF a <= b THEN a ELSE b

RECURSIVE Flatten(_)
\* Concatenation of a sequence of byte sequences.
Flatten(ss) == IF ss = <<>> THEN <<>> ELSE Head(ss) \o Flatten(Tail(ss))

IsPrefix(s, t) == Len(s) <= Len(t) /\ SubSeq(t, 1, Len(s)) = s

Last(s) == s[Len(s)]

\* ======================================================================
\*  The in-process pipe
\* ======================================================================
\* A call that awaits (send on a full channel, recv on an empty one) changes
\* nothing before the await completes, so each call is one action, enabled
\* when its await can complete.
VARIABLES
    chan,      \* mpsc channel contents: events sent and not yet received
    wpc,       \* writer task: "live" | "gone" (PipeWrite dropped or consumed)
    wres,      \* result of the writer's last completed call
    wlog,      \* history: the pieces of the write_owned calls that returned Ok
    rpc,       \* reader task: "live" | "gone" (PipeRead dropped or unwound)
    remain,    \* PipeRead::remain (<<>> is None)
    state,     \* PipeRead::state
    rlog       \* history: one record per completed read_owned call

pipeVars == <<chan, wpc, wres, wlog, rpc, remain, state, rlog>>

\* read_and_parse (see below)
VARIABLES
    p_pc,        \* "loop" (about to run the parser) | "reading" (awaiting
                 \* read_into) | "returned" | "panicked"
    p_buf,       \* buf.filled(): the filled bytes of the RollMut, in order
    p_cap,       \* buf.cap(): room left in the RollMut's storage
    p_max_len,   \* the max_len argument
    p_stream,    \* bytes the transport will deliver before EOF
    p_checks,    \* the build has overflow checks on (debug) or off (release)
    p_read_limit,\* the local read_limit
    p_verdict,   \* the parser's answer in this iteration: "none" (not run
                 \* yet) | "Ok" | "Incomplete" | "Error"
    p_n,         \* n of the last completed read_into (-1: none yet)
    p_reads,     \* history: reads issued on the transport
    p_underflow, \* history: max_len - buf.len() was computed with buf.len() > max_len
    p_result,    \* the value returned: "none" while the call is running
    p_parsed     \* history: bytes the parser consumed when it answered Ok
                 \* (-1: it has not)

parseVars == <<p_pc, p_buf, p_cap, p_max_len, p_stream, p_checks, p_read_limit,
               p_verdict, p_n, p_reads, p_underflow, p_result, p_parsed>>

\* H1Body (crates/loona/src/h1/body.rs, see below)
VARIABLES
    b_kind,    \* H1BodyKind: "Chunked" | "ContentLength"
    b_len,     \* ContentLengthDecoder::len
    b_read,    \* ContentLengthDecoder::read
    b_state,   \* ChunkedDecoder: "ReadingChunkHeader" | "ReadingChunk" | "Done"
    b_remain,  \* ChunkedDecoder::ReadingChunk { remain }
    b_slot,    \* H1Body::buf is Some
    b_buf,     \* the filled bytes of the RollMut (in the slot or held by the
               \* running call)
    b_stream,  \* bytes the transport will deliver before EOF
    b_pc,      \* "idle" (no call running) | "head" (loop head of the chunked
               \* decoder) | "final" (about to parse the final CRLF) |
               \* "rd_size" | "rd_final" | "rd_term" (awaiting the read of a
               \* read_and_parse) | "rd_data" | "rd_cl" (awaiting read_into
               \* for body bytes) | "panicked" | "consumed" (into_inner called)
    b_n,       \* how the last read completed by the call went: 1 (it gave
               \* bytes), 0 (end of stream), -1 (the call made no read), -2
               \* (the read or the reserve before it failed)
    b_log,     \* history: one record per next_chunk call that returned
    b_inner,   \* what into_inner returned: "none" (not called) | "Some" | "None"
    b_src,     \* input: the payloads of the chunks on the wire (Chunked)
    b_pad,     \* input: leading zeros of the first size line (Chunked)
    b_wire     \* input: every byte the connection holds from the body's
               \* start until the peer closes

bodyVars == <<b_kind, b_len, b_read, b_state, b_remain, b_slot, b_buf, b_stream,
              b_pc, b_n, b_log, b_inner, b_src, b_pad, b_wire>>

\* write_h1_body (crates/loona/src/h1/body.rs, see below)
VARIABLES
    w_mode,    \* BodyWriteMode: "Chunked" | "ContentLength" | "Empty"
    w_cl,      \* n of BodyWriteMode::ContentLength(n)
    w_body,    \* the chunks the body has yet to return before Done
    w_out,     \* bytes written to the transport so far
    w_pc,      \* "loop" | "returned"
    w_result,  \* "none" while running, then "Ok" or the error
    w_chunks,  \* history: the chunks body.next_chunk() returned
    w_ends     \* history: number of times the body end was written

writeVars == <<w_mode, w_cl, w_body, w_out, w_pc, w_result, w_chunks, w_ends>>

\* Pieces split out of one Piece (crates/fluke-buffet/src/piece.rs, see below)
VARIABLES
    ps_parts,  \* the pieces the original has been split into, in order
    ps_last,   \* history: the last split_at call: the piece, middle, results
    ps_pc      \* "ok" | "panicked" (split_at's assertion failed)

pieceVars == <<ps_parts, ps_last, ps_pc>>

\* One PieceList (crates/fluke-buffet/src/piece.rs, see below)
VARIABLES
    pl_pieces, \* PieceList::pieces, front to back
    pl_ops     \* history: the calls made on the list, the constructor first

listVars == <<pl_pieces, pl_ops>>

\* h2::serve over one connection (crates/fluke/src/h2/server.rs, see below)
VARIABLES
    s_pc,          \* serve: "preface" (about to run the preface parser) |
                   \* "rd_preface" (awaiting read_into) | "settings" (about
                   \* to write the SETTINGS frame) | "joined" (awaiting
                   \* try_join!) | "returned"
    s_conf,        \* conf.max_streams
    s_max_concurrent_streams,
                   \* state.self_settings.max_concurrent_streams
    s_client_buf,  \* client_buf: the filled bytes of the RollMut
    s_transport_r, \* bytes the client delivers before it sends frames or
                   \* closes
    s_input,       \* input: every byte the client delivers for the preface,
                   \* those client_buf holds at entry included
    s_n,           \* how the last read of the preface went: 1 (it gave
                   \* bytes), 0 (end of stream), -1 (no read yet), -2 (failed)
    s_transport_w, \* what has been written to transport_w: one record per
                   \* part of a frame (its header, its payload)
    s_ev,          \* the event channel: events sent and not yet received
    s_read_task,   \* read loop: "none" (not started) | "running" | "ok" |
                   \* "closed" (Err(ConnectionClosed)) | "failed" | "dropped"
    s_write_task,  \* write loop: "none" | "running" | "writing" (inside one
                   \* frame) | "ok" | "closed" | "failed" | "dropped"
    s_cur,         \* write loop: the event whose frame is being written and
                   \* the parts of it written
    s_streams,     \* ConnState's stream table: id -> state of the stream
    s_handlers,    \* streams whose handler has yet to respond, with the
                   \* events each has yet to send
    s_frames,      \* history: the frames the read loop has read
    s_sent,        \* history: the events put on the channel, in order
    s_recv,        \* history: the events the write loop received, in order
    s_result       \* what serve returned: "none" while it runs

serveVars == <<s_pc, s_conf, s_max_concurrent_streams, s_client_buf,
               s_transport_r, s_input, s_n, s_transport_w, s_ev, s_read_task,
               s_write_task, s_cur, s_streams, s_handlers, s_frames, s_sent,
               s_recv, s_result>>

\* The aggregate buffers (src/src/bufpool/agg.rs, src/src/parse/aggregate.rs)
VARIABLES
    a_impl,        \* which implementation: "AggBuf" (bufpool/agg.rs) |
                   \* "AggregateBuf" (parse/aggregate.rs)
    a_mem,         \* the pool's blocks handed out so far: block id -> bytes
    a_inner,       \* the inner of the live buffer: the ids of its blocks,
                   \* off and len
    a_data,        \* history: the bytes written at the logical offsets
                   \* 0..len of the live buffer, in order
    a_slices,      \* the slices held, those of the last take_split:
                   \* whether each looks
                   \* into the live inner or into one a split left behind
                   \* (and which), its off and len, and the bytes it
                   \* showed when it was taken
    a_pc,          \* "live" | "panicked" | "lost" (split gave Err and the
                   \* buffer went with it)
    a_underflow,   \* an unsigned subtraction went below zero: a panic in a
                   \* build with overflow checks, a wrapped value in one
                   \* without
    a_last         \* history: the last operation, its arguments and its
                   \* result

aggVars == <<a_impl, a_mem, a_inner, a_data, a_slices, a_pc,
             a_underflow, a_last>>

\* FindSubstring for AggSlice (src/src/bufpool/agg.rs)
VARIABLES
    f_hay,         \* the bytes of the slice, in the order its iterator
                   \* yields them
    f_needle,      \* substr
    f_i,           \* how many bytes the iterator has yielded
    f_offset,      \* offset: -1 for None
    f_curr,        \* curr_substr: how many bytes of substr are matched
    f_result       \* -2 while the loop runs, -1 for None, i for Some(i)

findVars == <<f_hay, f_needle, f_i, f_offset, f_curr, f_result>>

\* The AggBuf based H1Body (src/src/h1/body.rs)
VARIABLES
    lg_len,        \* ContentLength { len, .. }
    lg_read,       \* ContentLength { read, .. }
    lg_eof,        \* self.eof
    lg_buf,        \* the inner of the AggBuf self.buf holds, or held when
                   \* it was taken
    lg_taken,      \* self.buf is None: taken by a call and not put back
    lg_stream,     \* bytes the transport has yet to deliver before it ends
    lg_pc,         \* "idle" | "reading" (awaiting transport.read) |
                   \* "assert_failed" | "unwrap_failed" |
                   \* "split_at_failed": the panics of next_chunk
    lg_wanted,     \* wanted, while the read is awaited
    lg_n,          \* how the last read went: the bytes it gave, 0 at the
                   \* end of the stream, -1 (no read yet), -2 (failed)
    lg_log         \* history: what each call of next_chunk returned

legacyVars == <<lg_len, lg_read, lg_eof, lg_buf, lg_taken, lg_stream, lg_pc,
                lg_wanted, lg_n, lg_log>>

bufVars == <<aggVars, findVars, legacyVars>>

\* What each component's actions leave untouched.
nonPipeVars == <<parseVars, bodyVars, writeVars, pieceVars, listVars, serveVars,
    bufVars>>
nonParseVars == <<pipeVars, bodyVars, writeVars, pieceVars, listVars, serveVars,
    bufVars>>
nonBodyVars == <<pipeVars, parseVars, writeVars, pieceVars, listVars, serveVars,
    bufVars>>
nonWriteVars == <<pipeVars, parseVars, bodyVars, pieceVars, listVars, serveVars,
    bufVars>>
nonPieceVars == <<pipeVars, parseVars, bodyVars, writeVars, listVars, serveVars,
    bufVars>>
nonListVars == <<pipeVars, parseVars, bodyVars, writeVars, pieceVars, serveVars,
    bufVars>>
nonServeVars == <<pipeVars, parseVars, bodyVars, writeVars, pieceVars, listVars,
    bufVars>>

nonAggVars ==
    <<pipeVars, parseVars, bodyVars, writeVars, pieceVars, listVars,
    serveVars, findVars, legacyVars>>
nonFindVars ==
    <<pipeVars, parseVars, bodyVars, writeVars, pieceVars, listVars,
    serveVars, aggVars, legacyVars>>
nonLegacyVars ==
    <<pipeVars, parseVars, bodyVars, writeVars, pieceVars, listVars,
    serveVars, aggVars, findVars>>

vars == <<pipeVars, parseVars, bodyVars, writeVars, pieceVars, listVars,
          serveVars, bufVars>>

\* Mutant: the channel has room for a second event.
ChanCap_wide == 1 + 1

\* mpsc::channel(1)
ChanCap == 1

PieceEvent(p) == [kind |-> "Piece", piece |-> p]
ResetEvent == [kind |-> "Reset", piece |-> <<>>]
\* What recv() yields once the channel is empty and the Sender dropped (None).
NoEvent == [kind |-> "Closed", piece |-> <<>>]

\* Piece::is_empty
is_empty(p) == Len(p) = 0

\* Mutant: split_at loses the second part.
split_at_drop(p, middle) == <<SubSeq(p, 1, middle), <<>>>>

\* Piece::split_at: the two views share the core; here the bytes they show.
split_at(p, middle) == <<SubSeq(p, 1, middle), SubSeq(p, middle + 1, Len(p))>>

\* The writer task still holds the Sender.
SenderAlive == wpc # "gone"

\* The Receiver exists.
rxOpen == rpc # "gone"

\* All bytes written / read so far, in order.
written == Flatten(wlog)
received == Flatten([i \in 1..Len(rlog) |-> rlog[i].data])

\* The piece the next write_owned call is given: n fresh bytes, numbered by
\* their position in the stream so that loss, duplication and reordering show.
FreshPiece(n) == [i \in 1..n |-> Len(written) + i]

\* The record of a completed read_owned: its result, the bytes copied into
\* the buffer, the buffer's capacity, and whether reset() had returned by
\* the time of the call.
ReadResult(res, data, cap) ==
    [res |-> res, data |-> data, cap |-> cap, since |-> (wres = "ResetDone")]

PipeInit ==
    /\ chan = <<>>
    /\ wpc = "live" /\ wres = "none" /\ wlog = <<>>
    /\ rpc = "live" /\ remain = <<>> /\ state = "Live" /\ rlog = <<>>

\* ---------------------------------------------------------------- writer

\* The events write_owned puts on the channel for `buf`. The `if
\* buf.is_empty()` block is empty, so the empty piece is sent like any other.
write_owned_events(buf) == <<PieceEvent(buf)>>

\* write_owned(buf), buf of n bytes: tx.send(Piece(buf)).await completes
\* once the channel has room; Ok(buf.len()).
WriteOwned(n) ==
    /\ wpc = "live" /\ Len(wlog) < MaxWrites /\ rxOpen
    /\ Len(chan) + Len(write_owned_events(FreshPiece(n))) <= ChanCap
    /\ chan' = chan \o write_owned_events(FreshPiece(n))
    /\ wlog' = Append(wlog, FreshPiece(n))
    /\ wres' = "Ok"
    /\ UNCHANGED nonPipeVars
    /\ UNCHANGED <<wpc, rpc, remain, state, rlog>>

\* write_owned(buf): tx.send(..).await is Err (the receiver is gone):
\* BrokenPipe.
WriteBrokenPipe ==
    /\ wpc = "live" /\ Len(wlog) < MaxWrites /\ ~rxOpen
    /\ wres' = "BrokenPipe"
    /\ UNCHANGED nonPipeVars
    /\ UNCHANGED <<chan, wpc, wlog, rpc, remain, state, rlog>>

\* reset(self): tx.send(Reset).await.unwrap() returns once the channel has
\* room; self (the Sender) is dropped.
Reset ==
    /\ wpc = "live" /\ rxOpen /\ Len(chan) < ChanCap
    /\ chan' = Append(chan, ResetEvent)
    /\ wpc' = "gone" /\ wres' = "ResetDone"
    /\ UNCHANGED nonPipeVars
    /\ UNCHANGED <<wlog, rpc, remain, state, rlog>>

\* reset(self): tx.send(Reset) is Err (the receiver is gone), unwrap() panics.
ResetPanic ==
    /\ wpc = "live" /\ ~rxOpen
    /\ wpc' = "gone" /\ wres' = "Panic"
    /\ UNCHANGED nonPipeVars
    /\ UNCHANGED <<chan, wlog, rpc, remain, state, rlog>>

\* The writer task ends and drops PipeWrite: "close is just dropping the channel".
DropWriter ==
    /\ wpc = "live"
    /\ wpc' = "gone" /\ wres' = "Dropped"
    /\ UNCHANGED nonPipeVars
    /\ UNCHANGED <<chan, wlog, rpc, remain, state, rlog>>

\* ---------------------------------------------------------------- reader

\* Mutant: the reader takes an event even while a remainder is pending.
NeedRecv_always(rem) == TRUE

\* `if self.remain.is_none()`: the reader takes an event only then.
NeedRecv(rem) == rem = <<>>

\* Mutant: off by one, the last byte of the remainder is never copied.
read_size_short(avail, rem) == Min(avail, Len(rem) - 1)

\* Mutant: copies a single byte whatever the buffer holds.
read_size_one(avail, rem) == Min(Min(avail, Len(rem)), 1)

\* avail.min(remain.len())
read_size(avail, rem) == Min(avail, Len(rem))

\* Mutant: the Reset arm returns Ok(0) like the Eof arm.
StickyResult_ok(st) == "Ok"

\* What a read returns in a non-Live state (the match at the loop head).
StickyResult(st) == IF st = "Reset" THEN "ConnectionReset" ELSE "Ok"

\* Mutant: a Reset event is handled like the channel closing.
StateAfterRecv_eof(ev) == IF ev.kind = "Piece" THEN "Live" ELSE "Eof"

\* The state after rx.recv() yields `ev` (NoEvent stands for None).
StateAfterRecv(ev) ==
    IF ev.kind = "Closed" THEN "Eof"
    ELSE IF ev.kind = "Reset" THEN "Reset"
    ELSE "Live"

\* Lines 72-84: copy read_size bytes of `rem` out, keep the rest in remain.
CopyOut(rem, cap) ==
    LET parts == split_at(rem, read_size(cap, rem))
    IN  /\ remain' = parts[2]
        /\ rlog' = Append(rlog, ReadResult("Ok", parts[1], cap))

\* read_owned(buf) can be called: the reader lives and has reads left.
CanRead == rpc = "live" /\ Len(rlog) < MaxReads

\* read_owned(buf), buf of capacity cap, with state Reset or Eof at the loop
\* head: return at once.
ReadSticky(cap) ==
    /\ CanRead /\ state # "Live"
    /\ rlog' = Append(rlog, ReadResult(StickyResult(state), <<>>, cap))
    /\ UNCHANGED nonPipeVars
    /\ UNCHANGED <<chan, wpc, wres, wlog, rpc, remain, state>>

\* read_owned(buf), Live with a remainder pending: serve it without
\* touching the channel.
ReadRemain(cap) ==
    /\ CanRead /\ state = "Live" /\ ~NeedRecv(remain)
    /\ CopyOut(remain, cap)
    /\ UNCHANGED nonPipeVars
    /\ UNCHANGED <<chan, wpc, wres, wlog, rpc, state>>

\* read_owned(buf): recv() yields a non-empty Piece, which becomes remain
\* and is copied out.
RecvPiece(cap) ==
    /\ CanRead /\ state = "Live" /\ NeedRecv(remain)
    /\ chan # <<>> /\ Head(chan).kind = "Piece" /\ ~is_empty(Head(chan).piece)
    /\ chan' = Tail(chan)
    /\ CopyOut(Head(chan).piece, cap)
    /\ UNCHANGED nonPipeVars
    /\ UNCHANGED <<wpc, wres, wlog, rpc, state>>

\* read_owned(buf): recv() yields an empty Piece, assert!(!piece.is_empty())
\* panics; the reader unwinds and the Receiver is dropped with it.
RecvEmptyPanic(cap) ==
    /\ CanRead /\ state = "Live" /\ NeedRecv(remain)
    /\ chan # <<>> /\ Head(chan).kind = "Piece" /\ is_empty(Head(chan).piece)
    /\ chan' = <<>> /\ rpc' = "gone"
    /\ rlog' = Append(rlog, ReadResult("Panic", <<>>, cap))
    /\ UNCHANGED nonPipeVars
    /\ UNCHANGED <<wpc, wres, wlog, remain, state>>

\* read_owned(buf): recv() yields Reset: state = Reset, `continue`, the
\* loop head returns Err(ConnectionReset).
RecvReset(cap) ==
    /\ CanRead /\ state = "Live" /\ NeedRecv(remain)
    /\ chan # <<>> /\ Head(chan).kind = "Reset"
    /\ chan' = Tail(chan)
    /\ state' = StateAfterRecv(Head(chan))
    /\ rlog' = Append(rlog, ReadResult(StickyResult(state'), <<>>, cap))
    /\ UNCHANGED nonPipeVars
    /\ UNCHANGED <<wpc, wres, wlog, rpc, remain>>

\* read_owned(buf): recv() yields None (channel empty, Sender dropped):
\* state = Eof, `continue`, the loop head returns Ok(0).
RecvClosed(cap) ==
    /\ CanRead /\ state = "Live" /\ NeedRecv(remain)
    /\ chan = <<>> /\ ~SenderAlive
    /\ state' = StateAfterRecv(NoEvent)
    /\ rlog' = Append(rlog, ReadResult(StickyResult(state'), <<>>, cap))
    /\ UNCHANGED nonPipeVars
    /\ UNCHANGED <<chan, wpc, wres, wlog, rpc, remain>>

\* The reader task ends and drops PipeRead; queued events are dropped.
DropReader ==
    /\ rpc = "live"
    /\ rpc' = "gone" /\ chan' = <<>>
    /\ UNCHANGED nonPipeVars
    /\ UNCHANGED <<wpc, wres, wlog, remain, state, rlog>>

PipeNext ==
    \/ \E n \in 0..MaxPieceLen : WriteOwned(n)
    \/ WriteBrokenPipe
    \/ Reset
    \/ ResetPanic
    \/ DropWriter
    \/ \E cap \in 0..MaxCap :
          \/ ReadSticky(cap)
          \/ ReadRemain(cap)
          \/ RecvPiece(cap)
          \/ RecvEmptyPanic(cap)
          \/ RecvReset(cap)
          \/ RecvClosed(cap)
    \/ DropReader

\* ======================================================================
\*  read_and_parse
\* ======================================================================

\* usize arithmetic wraps modulo 2^64 when overflow checks are off; the model
\* keeps 16 bits, which every length of the model is far below.
UsizeModulus == 2 ^ 16

\* Mutant: the bytes already buffered are not taken off the limit.
wrapping_sub_none(a, b) == a

\* a - b on usize without overflow checks.
wrapping_sub(a, b) == (a - b) % UsizeModulus

\* RollMut::len
roll_len(b) == Len(b)

\* RollMut::is_empty
roll_is_empty(b) == roll_len(b) = 0

\* RollMut::keep(rest): the filled region becomes rest, the suffix of the
\* filled bytes left after the parser consumed the first k.
keep(b, k) == SubSeq(b, k + 1, Len(b))

\* RollMut::reserve: a buffer with no room left gets a block's worth.
reserve(cap) == IF cap = 0 THEN BlockCap ELSE cap

\* The most bytes read_into(limit, reader) asks the reader for.
read_into_max(limit, cap) == Min(limit, cap)

\* `if buf.len() >= max_len`
limit_reached(len, max_len) == len >= max_len

\* Mutant: the two arms of the EOF test are swapped.
eof_result_swapped(b) == IF ~roll_is_empty(b) THEN "None" ELSE "UnexpectedEof"

\* `if n == 0 { if !buf.is_empty() { Err("unexpected EOF") } else { Ok(None) } }`
eof_result(b) == IF ~roll_is_empty(b) THEN "UnexpectedEof" ELSE "None"

\* Mutant: the buffer is returned as it was, keep(rest) is not called.
buf_after_ok_nokeep(b, k) == b

\* `buf.keep(rest); return Ok(Some((buf, output)))`, rest being the filled
\* bytes past the first k: the filled region of the buffer returned.
buf_after_ok(b, k) == keep(b, k)

\* The bytes 1..n of the connection's stream, numbered by position.
StreamBytes(from, n) == [i \in 1..n |-> from + i]

ParseInit ==
    /\ p_pc = "loop"
    /\ \E l \in 0..MaxInitLen, s \in 0..MaxStream :
          /\ p_buf = StreamBytes(0, l)
          /\ p_stream = StreamBytes(l, s)
    /\ p_cap \in 0..BlockCap
    /\ p_max_len \in 0..MaxMaxLen
    /\ p_checks \in BOOLEAN
    /\ p_read_limit = 0 /\ p_verdict = "none" /\ p_n = -1 /\ p_reads = 0
    /\ p_underflow = FALSE /\ p_result = "none" /\ p_parsed = -1

Return(r) == p_pc' = "returned" /\ p_result' = r

\* parser(filled) is Ok((rest, output)) with rest the filled bytes past the
\* first k: keep(rest), return Some((buf, output)).
ParserOk(k) ==
    /\ p_pc = "loop" /\ k \in 0..roll_len(p_buf)
    /\ p_verdict' = "Ok"
    /\ p_buf' = buf_after_ok(p_buf, k)
    /\ p_parsed' = k
    /\ Return("Some")
    /\ UNCHANGED nonParseVars
    /\ UNCHANGED <<p_cap, p_max_len, p_stream, p_checks, p_read_limit, p_n,
                   p_reads, p_underflow>>

\* parser(filled) is Err(Error | Failure): return the parsing error.
ParserFatal ==
    /\ p_pc = "loop"
    /\ p_verdict' = "Error"
    /\ Return("ParsingError")
    /\ UNCHANGED nonParseVars
    /\ UNCHANGED <<p_buf, p_cap, p_max_len, p_stream, p_checks, p_read_limit,
                   p_n, p_reads, p_underflow,
                   p_parsed>>

\* parser(filled) is Err(Incomplete) with buf.len() > max_len in a build with
\* overflow checks: `max_len - buf.len()` panics before the guard is reached.
IncompleteOverflowPanic ==
    /\ p_pc = "loop" /\ roll_len(p_buf) > p_max_len /\ p_checks
    /\ p_verdict' = "Incomplete"
    /\ p_underflow' = TRUE
    /\ p_pc' = "panicked"
    /\ UNCHANGED nonParseVars
    /\ UNCHANGED <<p_buf, p_cap, p_max_len, p_stream, p_checks, p_read_limit,
                   p_n, p_reads, p_result,
                   p_parsed>>

\* parser(filled) is Err(Incomplete) and the guard buf.len() >= max_len
\* holds: read_limit was computed first (wrapping when buf.len() > max_len
\* and overflow checks are off), then BufferLimitReachedWhileParsing.
IncompleteLimit ==
    /\ p_pc = "loop"
    /\ roll_len(p_buf) > p_max_len => ~p_checks
    /\ limit_reached(roll_len(p_buf), p_max_len)
    /\ p_verdict' = "Incomplete"
    /\ p_read_limit' = wrapping_sub(p_max_len, roll_len(p_buf))
    /\ p_underflow' = (p_underflow \/ roll_len(p_buf) > p_max_len)
    /\ Return("BufferLimitReachedWhileParsing")
    /\ UNCHANGED nonParseVars
    /\ UNCHANGED <<p_buf, p_cap, p_max_len, p_stream, p_checks, p_n, p_reads,
                   p_parsed>>

\* Err(Incomplete), below the limit, cap == 0 and `buf.reserve()?` fails.
IncompleteReserveFails ==
    /\ p_pc = "loop"
    /\ roll_len(p_buf) > p_max_len => ~p_checks
    /\ ~limit_reached(roll_len(p_buf), p_max_len)
    /\ p_cap = 0
    /\ p_verdict' = "Incomplete"
    /\ p_read_limit' = wrapping_sub(p_max_len, roll_len(p_buf))
    /\ p_underflow' = (p_underflow \/ roll_len(p_buf) > p_max_len)
    /\ Return("ReserveError")
    /\ UNCHANGED nonParseVars
    /\ UNCHANGED <<p_buf, p_cap, p_max_len, p_stream, p_checks, p_n, p_reads,
                   p_parsed>>

\* Err(Incomplete), below the limit: reserve if cap == 0, then issue
\* buf.read_into(read_limit, stream).
IncompleteRefill ==
    /\ p_pc = "loop"
    /\ roll_len(p_buf) > p_max_len => ~p_checks
    /\ ~limit_reached(roll_len(p_buf), p_max_len)
    /\ p_verdict' = "Incomplete"
    /\ p_read_limit' = wrapping_sub(p_max_len, roll_len(p_buf))
    /\ p_underflow' = (p_underflow \/ roll_len(p_buf) > p_max_len)
    /\ p_cap' = reserve(p_cap)
    /\ p_reads' = p_reads + 1
    /\ p_pc' = "reading"
    /\ UNCHANGED nonParseVars
    /\ UNCHANGED <<p_buf, p_max_len, p_stream, p_checks, p_n, p_result,
                   p_parsed>>

\* read_into returns Ok(n), n > 0: n bytes of the stream are appended;
\* `continue`.
ReadSome(n) ==
    /\ p_pc = "reading"
    /\ n \in 1..Min(read_into_max(p_read_limit, p_cap), Len(p_stream))
    /\ p_buf' = p_buf \o SubSeq(p_stream, 1, n)
    /\ p_stream' = SubSeq(p_stream, n + 1, Len(p_stream))
    /\ p_cap' = p_cap - n
    /\ p_n' = n
    /\ p_verdict' = "none"
    /\ p_pc' = "loop"
    /\ UNCHANGED nonParseVars
    /\ UNCHANGED <<p_max_len, p_checks, p_read_limit, p_reads, p_underflow,
                   p_result,
                   p_parsed>>

\* read_into returns Ok(0): the transport is at EOF (or was asked for no
\* byte at all).
ReadEof ==
    /\ p_pc = "reading"
    /\ p_stream = <<>> \/ read_into_max(p_read_limit, p_cap) = 0
    /\ p_n' = 0
    /\ Return(eof_result(p_buf))
    /\ UNCHANGED nonParseVars
    /\ UNCHANGED <<p_buf, p_cap, p_max_len, p_stream, p_checks, p_read_limit,
                   p_verdict, p_reads, p_underflow,
                   p_parsed>>

\* read_into returns Err: the transport failed; `?` returns the error.
ReadFails ==
    /\ p_pc = "reading"
    /\ Return("ReadError")
    /\ UNCHANGED nonParseVars
    /\ UNCHANGED <<p_buf, p_cap, p_max_len, p_stream, p_checks, p_read_limit,
                   p_verdict, p_n, p_reads, p_underflow,
                   p_parsed>>

ParseNext ==
    \/ \E k \in 0..(MaxInitLen + MaxStream) : ParserOk(k)
    \/ ParserFatal
    \/ IncompleteOverflowPanic
    \/ IncompleteLimit
    \/ IncompleteReserveFails
    \/ IncompleteRefill
    \/ \E n \in 1..MaxStream : ReadSome(n)
    \/ ReadEof
    \/ ReadFails

\* ======================================================================
\*  HTTP/1.1 bodies on the wire
\* ======================================================================

\* Most chunks a body returns to write_h1_body before Done.
MaxBodyChunks == 2
\* Longest chunk a body returns to write_h1_body (16 is the first length
\* whose hex form has two digits).
MaxBodyChunkLen == 16
\* Largest n of BodyWriteMode::ContentLength(n).
MaxAnnounced == 1

\* "\r" and "\n"
CR == 13
LF == 10
CRLF == <<CR, LF>>

\* The digits "0123456789abcdef" and "0123456789ABCDEF".
LowerHexDigits == <<48, 49, 50, 51, 52, 53, 54, 55, 56, 57,
                    97, 98, 99, 100, 101, 102>>
UpperHexDigits == <<48, 49, 50, 51, 52, 53, 54, 55, 56, 57,
                    65, 66, 67, 68, 69, 70>>

\* Body bytes are opaque to the codec: byte i of a body is numbered past the
\* byte values, so that loss, duplication and reordering show and no body
\* byte reads as a digit, CR or LF.
DataByte(i) == 256 + i
DataBytes(from, n) == [i \in 1..n |-> DataByte(from + i)]

RECURSIVE format_upper_hex(_)
\* Mutant: format!("{:X}"), uppercase digits.
format_upper_hex(n) ==
    IF n < 16 THEN <<UpperHexDigits[n + 1]>>
    ELSE format_upper_hex(n \div 16) \o <<UpperHexDigits[(n % 16) + 1]>>

RECURSIVE format_lower_hex(_)
\* format!("{:x}", n): the digits of n in base 16, lowercase, no padding.
format_lower_hex(n) ==
    IF n < 16 THEN <<LowerHexDigits[n + 1]>>
    ELSE format_lower_hex(n \div 16) \o <<LowerHexDigits[(n % 16) + 1]>>

\* PieceList::followed_by / push_back: an empty piece is not added.
followed_by(list, piece) == IF is_empty(piece) THEN list ELSE Append(list, piece)

\* The PieceList write_h1_body_chunk builds in Chunked mode.
chunked_pieces(chunk) ==
    followed_by(followed_by(followed_by(<<>>,
        format_lower_hex(Len(chunk)) \o CRLF), chunk), CRLF)

\* "0\r\n\r\n"
body_end_bytes == <<LowerHexDigits[1]>> \o CRLF \o CRLF

\* Mutant: Empty mode writes the chunk like ContentLength mode.
write_h1_body_chunk_lax(mode, chunk) ==
    IF mode = "Chunked"
    THEN [res |-> "Ok", bytes |-> Flatten(chunked_pieces(chunk))]
    ELSE [res |-> "Ok", bytes |-> chunk]

\* write_h1_body_chunk(transport, chunk, mode) when the transport accepts
\* every byte: the result and the bytes written.
write_h1_body_chunk(mode, chunk) ==
    IF mode = "Chunked"
    THEN [res |-> "Ok", bytes |-> Flatten(chunked_pieces(chunk))]
    ELSE IF mode = "ContentLength"
    THEN [res |-> "Ok", bytes |-> chunk]
    ELSE [res |-> "CalledWriteBodyChunkWhenNoBodyWasExpected", bytes |-> <<>>]

\* write_h1_body_end(transport, mode): the bytes written.
write_h1_body_end(mode) == IF mode = "Chunked" THEN body_end_bytes ELSE <<>>

\* The chunks of a body whose chunks have the lengths `lens`, in order.
RECURSIVE BodyChunks(_, _)
BodyChunks(lens, from) ==
    IF lens = <<>> THEN <<>>
    ELSE <<DataBytes(from, Head(lens))>>
            \o BodyChunks(Tail(lens), from + Head(lens))

\* Every sequence of at most maxn chunk lengths in 0..maxl.
ChunkLengths(maxn, maxl) == UNION {[1..c -> 0..maxl] : c \in 0..maxn}

\* ------------------------------------------------------- write_h1_body

WriteInit ==
    /\ w_mode \in {"Chunked", "ContentLength", "Empty"}
    /\ w_cl \in (IF w_mode = "ContentLength" THEN 0..MaxAnnounced ELSE {0})
    /\ \E lens \in ChunkLengths(MaxBodyChunks, MaxBodyChunkLen) :
          w_body = BodyChunks(lens, 0)
    /\ w_out = <<>> /\ w_pc = "loop" /\ w_result = "none"
    /\ w_chunks = <<>> /\ w_ends = 0

WriteReturn(r) == w_pc' = "returned" /\ w_result' = r

\* body.next_chunk() is Ok(Chunk(chunk)) and the transport takes what
\* write_h1_body_chunk writes; an error of write_h1_body_chunk is returned.
WriteChunk ==
    /\ w_pc = "loop" /\ w_body # <<>>
    /\ LET r == write_h1_body_chunk(w_mode, Head(w_body))
       IN  /\ w_out' = w_out \o r.bytes
           /\ IF r.res = "Ok"
              THEN UNCHANGED <<w_pc, w_result>>
              ELSE WriteReturn(r.res)
    /\ w_chunks' = Append(w_chunks, Head(w_body))
    /\ w_body' = Tail(w_body)
    /\ UNCHANGED nonWriteVars
    /\ UNCHANGED <<w_mode, w_cl, w_ends>>

\* body.next_chunk() is Ok(Chunk(chunk)) and the transport write fails:
\* WriteError. w_out keeps the bytes of the writes that completed.
WriteChunkFails ==
    /\ w_pc = "loop" /\ w_body # <<>>
    /\ w_mode \in {"Chunked", "ContentLength"}
    /\ w_chunks' = Append(w_chunks, Head(w_body))
    /\ w_body' = Tail(w_body)
    /\ WriteReturn("WriteError")
    /\ UNCHANGED nonWriteVars
    /\ UNCHANGED <<w_mode, w_cl, w_out, w_ends>>

\* body.next_chunk() is Ok(Done): write_h1_body_end, break, Ok(()).
WriteEnd ==
    /\ w_pc = "loop" /\ w_body = <<>>
    /\ w_out' = w_out \o write_h1_body_end(w_mode)
    /\ w_ends' = w_ends + 1
    /\ WriteReturn("Ok")
    /\ UNCHANGED nonWriteVars
    /\ UNCHANGED <<w_mode, w_cl, w_body, w_chunks>>

\* body.next_chunk() is Ok(Done) and the write of "0\r\n\r\n" fails.
WriteEndFails ==
    /\ w_pc = "loop" /\ w_body = <<>> /\ w_mode = "Chunked"
    /\ WriteReturn("WriteError")
    /\ UNCHANGED nonWriteVars
    /\ UNCHANGED <<w_mode, w_cl, w_body, w_out, w_chunks, w_ends>>

\* body.next_chunk() is Err: InnerBodyError.
WriteBodyFails ==
    /\ w_pc = "loop"
    /\ WriteReturn("InnerBodyError")
    /\ UNCHANGED nonWriteVars
    /\ UNCHANGED <<w_mode, w_cl, w_body, w_out, w_chunks, w_ends>>

WriteNext ==
    \/ WriteChunk
    \/ WriteChunkFails
    \/ WriteEnd
    \/ WriteEndFails
    \/ WriteBodyFails

\* ---------------------------------------------------------------- H1Body

\* Most chunks of a chunked body on the wire, and the longest payload.
MaxWireChunks == 2
MaxWireChunkLen == 2
\* Most leading zeros of the first size line.
MaxPad == 14
\* Largest len of H1BodyKind::ContentLength(len).
MaxContentLen == 2
\* Bytes on the connection after the body (the next request).
TailLen == 1
\* Most bytes missing from the end of the connection's bytes when the peer
\* closes.
MaxCut == 9
\* Most bytes the RollMut holds when the H1Body is made, unless it holds all
\* the connection's bytes.
MaxInitBuf == 3
\* The line ends of the input one of which is corrupted: the first ones.
MaxBadLf == 2
\* Number of next_chunk calls made at most.
MaxCalls == 5

\* max_len of the read_and_parse calls for the size line and for a CRLF.
ChunkSizeMaxLen == 16
CrlfMaxLen == 2

\* nom::character::is_hex_digit
is_hex_digit(b) ==
    \E i \in 1..16 : b = LowerHexDigits[i] \/ b = UpperHexDigits[i]

hex_digit_value(b) ==
    (CHOOSE i \in 1..16 : b = LowerHexDigits[i] \/ b = UpperHexDigits[i]) - 1

RECURSIVE from_str_radix_16(_)
\* u64::from_str_radix(digits, 16)
from_str_radix_16(digits) ==
    IF digits = <<>> THEN 0
    ELSE from_str_radix_16(SubSeq(digits, 1, Len(digits) - 1)) * 16
            + hex_digit_value(Last(digits))

RECURSIVE HexPrefixLen(_)
\* take_while(is_hex_digit): how many leading bytes are hex digits.
HexPrefixLen(buf) ==
    IF buf = <<>> \/ ~is_hex_digit(Head(buf)) THEN 0
    ELSE 1 + HexPrefixLen(Tail(buf))

ParseIncomplete == [verdict |-> "Incomplete", k |-> 0, value |-> 0]
ParseError == [verdict |-> "Error", k |-> 0, value |-> 0]
ParseOk(k, value) == [verdict |-> "Ok", k |-> k, value |-> value]

\* parse::crlf over streaming input: tag("\r\n").
crlf(buf) ==
    IF buf = <<>> THEN ParseIncomplete
    ELSE IF buf[1] # CR THEN ParseError
    ELSE IF Len(buf) = 1 THEN ParseIncomplete
    ELSE IF buf[2] # LF THEN ParseError
    ELSE ParseOk(2, 0)

\* parse::chunk_size over streaming input: one or more hex digits, then CRLF.
chunk_size(buf) ==
    LET nd == HexPrefixLen(buf)
        t == crlf(SubSeq(buf, nd + 1, Len(buf)))
    IN  IF nd = 0 THEN (IF buf = <<>> THEN ParseIncomplete ELSE ParseError)
        ELSE IF t.verdict = "Ok"
        THEN ParseOk(nd + 2, from_str_radix_16(SubSeq(buf, 1, nd)))
        ELSE t

\* The parser and the max_len of the read_and_parse call for `which`:
\* "size" (the chunk size line), "term" (the CRLF after a chunk's payload) or
\* "final" (the CRLF after the zero chunk).
parser(which, buf) == IF which = "size" THEN chunk_size(buf) ELSE crlf(buf)
max_len(which) == IF which = "size" THEN ChunkSizeMaxLen ELSE CrlfMaxLen

\* map_err / ok_or on the result of read_and_parse for `which`.
invalid(which) ==
    IF which = "size" THEN "InvalidChunkSize" ELSE "InvalidChunkTerminator"
closed(which) ==
    IF which = "size" THEN "ClosedWhileReadingChunkSize"
    ELSE "ClosedWhileReadingChunkTerminator"

\* Mutant: take_at_most ignores its limit and takes the whole buffer.
take_at_most_all(buf, n) ==
    IF roll_is_empty(buf) THEN [some |-> FALSE, chunk |-> <<>>, rest |-> buf]
    ELSE [some |-> TRUE, chunk |-> buf, rest |-> <<>>]

\* RollMut::take_at_most(n): None when nothing is filled, else the first
\* min(n, len) filled bytes, which leave the buffer.
take_at_most(buf, n) ==
    IF roll_is_empty(buf) THEN [some |-> FALSE, chunk |-> <<>>, rest |-> buf]
    ELSE [some |-> TRUE,
          chunk |-> SubSeq(buf, 1, Min(n, roll_len(buf))),
          rest |-> keep(buf, Min(n, roll_len(buf)))]

\* The bytes of a chunked body with the payloads `chunks` as write_h1_body
\* writes them, as far as the final CRLF, with `pad` zeros put before the
\* first size line.
chunked_wire(chunks, pad) ==
    [i \in 1..pad |-> LowerHexDigits[1]]
       \o Flatten([i \in 1..Len(chunks) |->
                     write_h1_body_chunk("Chunked", chunks[i]).bytes])
       \o write_h1_body_end("Chunked")

\* The k-th LF of the bytes replaced by a byte that is none (k = 0, or a k
\* past the last LF: the bytes as they are).
Corrupt(wire, k) ==
    LET lfs == {i \in 1..Len(wire) : wire[i] = LF}
        at == {i \in lfs : Cardinality({j \in lfs : j <= i}) = k}
    IN  [i \in 1..Len(wire) |-> IF i \in at THEN DataByte(0) ELSE wire[i]]

\* The connection as the H1Body finds it: the first `have` bytes of `wire`
\* are in the buffer already, the transport delivers the rest but for the
\* last `cut`.
BodyInput(wire, have, cut) ==
    LET total == IF cut >= Len(wire) THEN 0 ELSE Len(wire) - cut
        h == Min(have, total)
    IN  /\ b_wire = SubSeq(wire, 1, total)
        /\ b_buf = SubSeq(wire, 1, h)
        /\ b_stream = SubSeq(wire, h + 1, total)

\* H1Body::new
BodyNew ==
    /\ b_read = 0 /\ b_state = "ReadingChunkHeader" /\ b_remain = 0
    /\ b_slot = TRUE /\ b_pc = "idle" /\ b_n = -1 /\ b_log = <<>>
    /\ b_inner = "none"

\* The inputs depart from a plain body in one way at a time: zeros before the
\* first size line, a corrupted line end, or bytes missing at the end.
OneDeparture(pad, bad, cut) ==
    /\ pad > 0 => bad = 0 /\ cut = 0
    /\ bad > 0 => cut = 0

\* How many bytes the RollMut may hold when the H1Body is made: a few, or
\* all of the connection's bytes (read together with the request's head).
InitBufLens(wire) == (0..MaxInitBuf) \cup {Len(wire)}

BodyInit ==
    /\ BodyNew
    /\ \E cut \in 0..MaxCut :
         \/ /\ b_kind = "Chunked" /\ b_len = 0
            /\ \E lens \in ChunkLengths(MaxWireChunks, MaxWireChunkLen),
                  pad \in {0, MaxPad - 1, MaxPad}, bad \in 0..MaxBadLf :
                 LET chunks == BodyChunks(lens, 0)
                     good == chunked_wire(chunks, pad)
                               \o DataBytes(Len(Flatten(chunks)), TailLen)
                 IN  /\ OneDeparture(pad, bad, cut)
                     /\ b_src = chunks /\ b_pad = pad
                     /\ \E have \in InitBufLens(good) :
                           BodyInput(Corrupt(good, bad), have, cut)
         \/ /\ b_kind = "ContentLength" /\ b_len \in 0..MaxContentLen
            /\ b_src = <<>> /\ b_pad = 0
            /\ \E have \in 0..MaxInitBuf :
                  BodyInput(DataBytes(0, b_len + TailLen), have, cut)

\* What is remembered of a read that returned n (-1: no read was made).
ReadMark(n) == IF n > 0 THEN 1 ELSE n

\* A next_chunk call returns: one more record in the log.
BodyLog(res, data) ==
    /\ b_log' = Append(b_log, [res |-> res, data |-> data, n |-> b_n'])
    /\ b_pc' = "idle"

\* The call returns Ok and puts the buffer back (buf_slot.replace(buf)).
BodyOk(res, data, buf) ==
    /\ BodyLog(res, data) /\ b_slot' = TRUE /\ b_buf' = buf

\* The call returns Err after buf_slot.take(): the buffer is dropped and the
\* slot stays None.
BodyErr(res) ==
    /\ BodyLog(res, <<>>) /\ b_slot' = FALSE /\ b_buf' = <<>>

\* next_chunk can be called.
CanCall == b_pc = "idle" /\ Len(b_log) < MaxCalls

\* The running call's last read is forgotten when the next call starts.
LastRead == IF b_pc = "idle" THEN -1 ELSE b_n

\* Decoder::eof
eof ==
    IF b_kind = "Chunked" THEN b_state = "Done" ELSE b_len = b_read

\* Mutant: into_inner hands the buffer back whenever it is there.
into_inner_unchecked == IF b_slot THEN "Some" ELSE "None"

\* H1Body::into_inner
into_inner == IF ~eof THEN "None" ELSE IF b_slot THEN "Some" ELSE "None"

\* Mutant: the guard at the head of H1Body::next_chunk is missing.
NoBufResult_err == "CalledNextChunkAfterError"

\* H1Body::next_chunk, `if self.buf.is_none()`: what is returned.
NoBufResult == "Done"

\* next_chunk with self.buf None: Ok(Done), whatever the decoder's state.
NextChunkNoBuf ==
    /\ CanCall /\ ~b_slot
    /\ b_n' = -1
    /\ BodyLog(NoBufResult, <<>>)
    /\ UNCHANGED nonBodyVars
    /\ UNCHANGED <<b_kind, b_len, b_read, b_state, b_remain, b_slot, b_buf,
                   b_stream, b_inner, b_src, b_pad, b_wire>>

\* into_inner(self)
IntoInner ==
    /\ b_pc = "idle" /\ b_inner = "none"
    /\ b_inner' = into_inner
    /\ b_pc' = "consumed"
    /\ UNCHANGED nonBodyVars
    /\ UNCHANGED <<b_kind, b_len, b_read, b_state, b_remain, b_slot, b_buf,
                   b_stream, b_n, b_log, b_src, b_pad, b_wire>>

\* ---- ContentLengthDecoder::next_chunk

ClCall == CanCall /\ b_slot /\ b_kind = "ContentLength"

\* remain == 0: Ok(Done).
ClDone ==
    /\ ClCall /\ b_len - b_read = 0
    /\ b_n' = -1
    /\ BodyOk("Done", <<>>, b_buf)
    /\ UNCHANGED nonBodyVars
    /\ UNCHANGED <<b_kind, b_len, b_read, b_state, b_remain, b_stream, b_inner,
                   b_src, b_pad, b_wire>>

\* Mutant: the error of the chunked decoder, copied over.
closed_content_length_chunk == "ClosedWhileReadingChunkData"

\* `.ok_or(BodyError::ClosedWhileReadingContentLength)`
closed_content_length == "ClosedWhileReadingContentLength"

\* take_at_most(remain) on the buffer `buf` after a read of n bytes (-1: no
\* read was made): a Chunk, or ClosedWhileReadingContentLength.
ClTakeFrom(buf, n) ==
    LET t == take_at_most(buf, b_len - b_read)
    IN  /\ b_n' = ReadMark(n)
        /\ IF t.some
           THEN /\ b_read' = b_read + Len(t.chunk)
                /\ BodyOk("Chunk", t.chunk, t.rest)
           ELSE /\ b_read' = b_read
                /\ BodyErr(closed_content_length)

\* remain > 0 and the buffer holds bytes: no read.
ClTake ==
    /\ ClCall /\ b_len - b_read # 0 /\ ~roll_is_empty(b_buf)
    /\ ClTakeFrom(b_buf, -1)
    /\ UNCHANGED nonBodyVars
    /\ UNCHANGED <<b_kind, b_len, b_state, b_remain, b_stream, b_inner, b_src,
                   b_pad, b_wire>>

\* remain > 0 and the buffer is empty: reserve, issue read_into(usize::MAX).
ClRefill ==
    /\ ClCall /\ b_len - b_read # 0 /\ roll_is_empty(b_buf)
    /\ b_pc' = "rd_cl" /\ b_n' = -1
    /\ UNCHANGED nonBodyVars
    /\ UNCHANGED <<b_kind, b_len, b_read, b_state, b_remain, b_slot, b_buf,
                   b_stream, b_log, b_inner, b_src, b_pad, b_wire>>

\* ---- ChunkedDecoder::next_chunk

\* At the head of the loop with the buffer taken from the slot.
ChHead ==
    /\ b_kind = "Chunked"
    /\ (CanCall /\ b_slot) \/ b_pc = "head"

\* The read_and_parse call about to run its parser, if any.
ParsePoint(which) ==
    \/ which = "size" /\ ChHead /\ b_state = "ReadingChunkHeader"
    \/ which = "term" /\ ChHead /\ b_state = "ReadingChunk" /\ b_remain = 0
    \/ which = "final" /\ b_pc = "final"

\* Where control is once the read of a read_and_parse has brought bytes.
AfterRead(which) == IF which = "final" THEN "final" ELSE "head"

\* Mutant: Done is answered without `buf_slot.replace(buf)`.
ChDone_drops_buf ==
    /\ ChHead /\ b_state = "Done"
    /\ b_n' = -1
    /\ BodyErr("Done")
    /\ UNCHANGED nonBodyVars
    /\ UNCHANGED <<b_kind, b_len, b_read, b_state, b_remain, b_stream, b_inner,
                   b_src, b_pad, b_wire>>

\* ChunkedDecoder::Done: Ok(Done), the buffer goes back.
ChDone ==
    /\ ChHead /\ b_state = "Done"
    /\ b_n' = -1
    /\ BodyOk("Done", <<>>, b_buf)
    /\ UNCHANGED nonBodyVars
    /\ UNCHANGED <<b_kind, b_len, b_read, b_state, b_remain, b_stream, b_inner,
                   b_src, b_pad, b_wire>>

\* Mutant: the CRLF after a payload ends the body.
after_terminator_done == "Done"

\* `*self = ChunkedDecoder::ReadingChunkHeader` after the CRLF that follows a
\* chunk's payload.
after_terminator == "ReadingChunkHeader"

\* The parser succeeds: keep(rest), then by `which`: a size of 0 leads to the
\* final CRLF, another size to ReadingChunk { remain: size }; the CRLF after
\* a payload to ReadingChunkHeader and `continue`; the final CRLF to Done and
\* Ok(Done).
ChParseOk(which) ==
    /\ ParsePoint(which)
    /\ LET r == parser(which, b_buf)
           rest == buf_after_ok(b_buf, r.k)
       IN  /\ r.verdict = "Ok"
           /\ IF which = "size"
              THEN /\ b_buf' = rest /\ b_n' = LastRead
                   /\ IF r.value = 0
                      THEN b_pc' = "final" /\ UNCHANGED <<b_state, b_remain>>
                      ELSE /\ b_pc' = "head"
                           /\ b_state' = "ReadingChunk" /\ b_remain' = r.value
                   /\ UNCHANGED <<b_slot, b_log>>
              ELSE IF which = "term"
              THEN /\ b_buf' = rest /\ b_n' = LastRead
                   /\ b_pc' = "head"
                   /\ b_state' = after_terminator
                   /\ UNCHANGED <<b_remain, b_slot, b_log>>
              ELSE /\ b_state' = "Done" /\ b_n' = LastRead
                   /\ BodyOk("Done", <<>>, rest)
                   /\ UNCHANGED b_remain
    /\ UNCHANGED nonBodyVars
    /\ UNCHANGED <<b_kind, b_len, b_read, b_stream, b_inner, b_src, b_pad,
                   b_wire>>

\* The parser fails for good: the mapped parsing error.
ChParseError(which) ==
    /\ ParsePoint(which)
    /\ parser(which, b_buf).verdict = "Error"
    /\ b_n' = LastRead
    /\ BodyErr(invalid(which))
    /\ UNCHANGED nonBodyVars
    /\ UNCHANGED <<b_kind, b_len, b_read, b_state, b_remain, b_stream, b_inner,
                   b_src, b_pad, b_wire>>

\* The parser wants more and buf.len() >= max_len: max_len - buf.len() is
\* computed first, which panics when buf.len() > max_len in a build with
\* overflow checks and wraps in one without; then the limit error, mapped.
ChParseLimit(which) ==
    /\ ParsePoint(which)
    /\ parser(which, b_buf).verdict = "Incomplete"
    /\ limit_reached(roll_len(b_buf), max_len(which))
    /\ b_n' = LastRead
    /\ \/ BodyErr(invalid(which))
       \/ /\ roll_len(b_buf) > max_len(which)
          /\ b_pc' = "panicked"
          /\ UNCHANGED <<b_slot, b_buf, b_log>>
    /\ UNCHANGED nonBodyVars
    /\ UNCHANGED <<b_kind, b_len, b_read, b_state, b_remain, b_stream, b_inner,
                   b_src, b_pad, b_wire>>

\* The parser wants more, below the limit: reserve if there is no room, issue
\* read_into(max_len - buf.len()).
ChParseRefill(which) ==
    /\ ParsePoint(which)
    /\ parser(which, b_buf).verdict = "Incomplete"
    /\ ~limit_reached(roll_len(b_buf), max_len(which))
    /\ b_pc' = "rd_" \o which
    /\ b_n' = LastRead
    /\ UNCHANGED nonBodyVars
    /\ UNCHANGED <<b_kind, b_len, b_read, b_state, b_remain, b_slot, b_buf,
                   b_stream, b_log, b_inner, b_src, b_pad, b_wire>>

\* The read of a read_and_parse returns n bytes: n > 0 appends them and runs
\* the parser again; n = 0 ends the call with None (buffer empty) or the
\* unexpected-EOF error, mapped.
ChParseRead(which, n) ==
    /\ b_pc = "rd_" \o which
    /\ n <= Min(read_into_max(max_len(which) - roll_len(b_buf), BlockCap),
                Len(b_stream))
    /\ n = 0 => b_stream = <<>>
    /\ b_n' = ReadMark(n)
    /\ b_stream' = SubSeq(b_stream, n + 1, Len(b_stream))
    /\ IF n > 0
       THEN /\ b_buf' = b_buf \o SubSeq(b_stream, 1, n)
            /\ b_pc' = AfterRead(which)
            /\ UNCHANGED <<b_slot, b_log>>
       ELSE BodyErr(IF eof_result(b_buf) = "None" THEN closed(which)
                    ELSE invalid(which))
    /\ UNCHANGED nonBodyVars
    /\ UNCHANGED <<b_kind, b_len, b_read, b_state, b_remain, b_inner, b_src,
                   b_pad, b_wire>>

\* Mutant: remain is not decremented.
remain_after_same(rem, chunk) == rem

\* `*remain -= chunk.len() as u64`
remain_after(rem, chunk) == rem - Len(chunk)

\* take_at_most(remain) on the buffer `buf` after a read of n bytes (-1: no
\* read was made): a Chunk, or ClosedWhileReadingChunkData.
ChTakeFrom(buf, n) ==
    LET t == take_at_most(buf, b_remain)
    IN  /\ b_n' = ReadMark(n)
        /\ IF t.some
           THEN /\ b_remain' = remain_after(b_remain, t.chunk)
                /\ BodyOk("Chunk", t.chunk, t.rest)
           ELSE /\ b_remain' = b_remain
                /\ BodyErr("ClosedWhileReadingChunkData")

\* ReadingChunk, remain > 0 and the buffer holds bytes: no read.
ChTake ==
    /\ ChHead /\ b_state = "ReadingChunk" /\ b_remain # 0
    /\ ~roll_is_empty(b_buf)
    /\ ChTakeFrom(b_buf, LastRead)
    /\ UNCHANGED nonBodyVars
    /\ UNCHANGED <<b_kind, b_len, b_read, b_state, b_stream, b_inner, b_src,
                   b_pad, b_wire>>

\* ReadingChunk, remain > 0 and the buffer is empty: reserve, issue
\* read_into(remain).
ChRefill ==
    /\ ChHead /\ b_state = "ReadingChunk" /\ b_remain # 0
    /\ roll_is_empty(b_buf)
    /\ b_pc' = "rd_data" /\ b_n' = LastRead
    /\ UNCHANGED nonBodyVars
    /\ UNCHANGED <<b_kind, b_len, b_read, b_state, b_remain, b_slot, b_buf,
                   b_stream, b_log, b_inner, b_src, b_pad, b_wire>>

\* ---- both decoders: the read for body bytes, and failures

\* The limit of the read_into for body bytes.
DataLimit == IF b_pc = "rd_cl" THEN UsizeModulus - 1 ELSE b_remain

\* read_into for body bytes returns n (0 only at EOF); then take_at_most.
DataRead(n) ==
    /\ b_pc \in {"rd_cl", "rd_data"}
    /\ n <= Min(read_into_max(DataLimit, BlockCap), Len(b_stream))
    /\ n = 0 => b_stream = <<>>
    /\ b_stream' = SubSeq(b_stream, n + 1, Len(b_stream))
    /\ IF b_pc = "rd_cl"
       THEN /\ ClTakeFrom(b_buf \o SubSeq(b_stream, 1, n), n)
            /\ UNCHANGED <<b_state, b_remain>>
       ELSE /\ ChTakeFrom(b_buf \o SubSeq(b_stream, 1, n), n)
            /\ UNCHANGED <<b_state, b_read>>
    /\ UNCHANGED nonBodyVars
    /\ UNCHANGED <<b_kind, b_len, b_inner, b_src, b_pad, b_wire>>

\* The error a failed reserve or a failed read ends the call with, by the
\* place the call is at.
IoError(pc) ==
    IF pc = "rd_cl" \/ pc = "rd_data" THEN "ErrorWhileReadingChunkData"
    ELSE IF pc = "rd_size" THEN invalid("size")
    ELSE invalid("term")

\* A read fails (the transport's error), or the reserve before it did
\* (`buf.reserve()?`): the call returns the error.
BodyReadFails ==
    /\ b_pc \in {"rd_cl", "rd_data", "rd_size", "rd_final", "rd_term"}
    /\ b_n' = -2
    /\ BodyErr(IoError(b_pc))
    /\ UNCHANGED nonBodyVars
    /\ UNCHANGED <<b_kind, b_len, b_read, b_state, b_remain, b_stream, b_inner,
                   b_src, b_pad, b_wire>>

BodyNext ==
    \/ NextChunkNoBuf
    \/ IntoInner
    \/ ClDone
    \/ ClTake
    \/ ClRefill
    \/ ChDone
    \/ \E which \in {"size", "term", "final"} :
          \/ ChParseOk(which)
          \/ ChParseError(which)
          \/ ChParseLimit(which)
          \/ ChParseRefill(which)
          \/ \E n \in 0..BlockCap : ChParseRead(which, n)
    \/ ChTake
    \/ ChRefill
    \/ \E n \in 0..BlockCap : DataRead(n)
    \/ BodyReadFails

\* ======================================================================
\*  Piece
\* ======================================================================

\* Longest core a Piece is made over.
MaxCoreLen == 4
\* Most pieces the original is split into.
MaxParts == 4

\* Piece::Full { core } and Piece::Slice { core, start, len }; a Full piece
\* has no start and len, the record keeps them at 0.
Full(core) == [kind |-> "Full", core |-> core, start |-> 0, len |-> 0]
Slice(core, start, len) ==
    [kind |-> "Slice", core |-> core, start |-> start, len |-> len]

\* AsRef<[u8]> for Piece: &core[start..][..len] for a Slice, the core else.
as_ref(p) ==
    IF p.kind = "Slice"
    THEN SubSeq(SubSeq(p.core, p.start + 1, Len(p.core)), 1, p.len)
    ELSE p.core

\* Piece::len
piece_len(p) == Len(as_ref(p))

\* Mutant: the second part of a split Slice starts at middle, not at
\* start + middle.
piece_split_at_rel(p, middle) ==
    <<Slice(p.core, p.start, middle),
      Slice(p.core, middle, piece_len(p) - middle)>>

\* Piece::split_at(self, middle) with middle <= len.
piece_split_at(p, middle) ==
    IF p.kind = "Full"
    THEN <<Slice(p.core, 0, middle),
           Slice(p.core, middle, piece_len(p) - middle)>>
    ELSE <<Slice(p.core, p.start, middle),
           Slice(p.core, p.start + middle, p.len - middle)>>

NoSplit == [p |-> Full(<<>>), middle |-> -1, a |-> Full(<<>>), b |-> Full(<<>>)]

PieceInit ==
    /\ \E n \in 0..MaxCoreLen : ps_parts = <<Full(StreamBytes(0, n))>>
    /\ ps_last = NoSplit
    /\ ps_pc = "ok"

\* parts[i].split_at(middle), middle <= len: the two results take its place.
SplitAt(i, middle) ==
    /\ ps_pc = "ok" /\ Len(ps_parts) < MaxParts
    /\ i \in 1..Len(ps_parts) /\ middle <= piece_len(ps_parts[i])
    /\ LET r == piece_split_at(ps_parts[i], middle)
       IN  /\ ps_parts' = SubSeq(ps_parts, 1, i - 1) \o r
                             \o SubSeq(ps_parts, i + 1, Len(ps_parts))
           /\ ps_last' = [p |-> ps_parts[i], middle |-> middle,
                          a |-> r[1], b |-> r[2]]
    /\ UNCHANGED nonPieceVars
    /\ UNCHANGED ps_pc

\* parts[i].split_at(middle), middle > len: assert!(middle <= len) panics.
SplitAtPanic(i, middle) ==
    /\ ps_pc = "ok"
    /\ i \in 1..Len(ps_parts) /\ middle > piece_len(ps_parts[i])
    /\ ps_pc' = "panicked"
    /\ UNCHANGED nonPieceVars
    /\ UNCHANGED <<ps_parts, ps_last>>

PieceNext ==
    \E i \in 1..MaxParts, middle \in 0..(MaxCoreLen + 1) :
        \/ SplitAt(i, middle)
        \/ SplitAtPanic(i, middle)

\* ======================================================================
\*  PieceList
\* ======================================================================

\* Most calls made on one list after its constructor, and the longest Piece
\* handed to one.
MaxPushes == 3
MaxListPieceLen == 2

\* `chunk.is_empty()` of a Piece (through Deref<Target = [u8]>).
piece_is_empty(p) == piece_len(p) = 0

\* PieceList::default
list_default == <<>>

\* PieceList::single: the piece is taken as it is.
single(piece) == <<piece>>

\* PieceList::push_back
push_back(list, chunk) ==
    IF ~piece_is_empty(chunk) THEN Append(list, chunk) ELSE list

\* Mutant: push_front without the is_empty test.
push_front_any(list, chunk) == <<chunk>> \o list

\* PieceList::push_front
push_front(list, chunk) ==
    IF ~piece_is_empty(chunk) THEN <<chunk>> \o list ELSE list

\* PieceList::followed_by over Piece values: `self.push_back(chunk); self`
piece_list_followed_by(list, chunk) == push_back(list, chunk)

\* PieceList::preceded_by: `self.push_front(chunk); self`
preceded_by(list, chunk) == push_front(list, chunk)

RECURSIVE list_len(_)
\* PieceList::len: `self.pieces.iter().map(|c| c.len()).sum()`
list_len(list) ==
    IF list = <<>> THEN 0 ELSE piece_len(Head(list)) + list_len(Tail(list))

\* PieceList::num_pieces
num_pieces(list) == Len(list)

\* The Piece of n bytes handed to the k-th call: bytes no other call's has.
ListPiece(k, n) == Full(StreamBytes(k * (MaxListPieceLen + 1), n))

ListInit ==
    \/ pl_pieces = list_default
       /\ pl_ops = <<[op |-> "default", piece |-> Full(<<>>)]>>
    \/ \E n \in 0..MaxListPieceLen :
          /\ pl_pieces = single(ListPiece(0, n))
          /\ pl_ops = <<[op |-> "single", piece |-> ListPiece(0, n)]>>

\* The list after `op` with `chunk`; followed_by and preceded_by take the
\* list by value and return it.
Pushed(op, list, chunk) ==
    IF op = "push_back" THEN push_back(list, chunk)
    ELSE IF op = "followed_by" THEN piece_list_followed_by(list, chunk)
    ELSE IF op = "push_front" THEN push_front(list, chunk)
    ELSE preceded_by(list, chunk)

\* One of the four calls, with a Piece of n bytes.
Push(op, n) ==
    /\ Len(pl_ops) <= MaxPushes
    /\ LET chunk == ListPiece(Len(pl_ops), n)
       IN  /\ pl_pieces' = Pushed(op, pl_pieces, chunk)
           /\ pl_ops' = Append(pl_ops, [op |-> op, piece |-> chunk])
    /\ UNCHANGED nonListVars

ListNext ==
    \E op \in {"push_back", "push_front", "followed_by", "preceded_by"},
       n \in 0..MaxListPieceLen : Push(op, n)

\* ======================================================================
\*  h2::serve
\* ======================================================================

\* Largest conf.max_streams tried besides the default, and the number of
\* frames the client sends at most after the preface.
MaxConfStreams == 1
MaxClientFrames == 2

\* ServerConf::default().max_streams
DefaultMaxStreams == 32

\* tokio::sync::mpsc::channel::<H2ConnEvent>(32)
EvChanCap == 32

\* parse::PREFACE, "PRI * HTTP/2.0\r\n\r\nSM\r\n\r\n"
PREFACE ==
    <<80, 82, 73, 32, 42, 32, 72, 84, 84, 80, 47, 50, 46, 48, CR, LF, CR, LF,
      83, 77, CR, LF, CR, LF>>

\* parse::preface, a streaming match of the literal: Ok once the buffer
\* begins with it, Error at the first byte that differs, Incomplete while
\* the buffer is a proper prefix of it.
preface(buf) ==
    IF Len(buf) >= Len(PREFACE)
    THEN IF SubSeq(buf, 1, Len(PREFACE)) = PREFACE
         THEN ParseOk(Len(PREFACE), 0) ELSE ParseError
    ELSE IF IsPrefix(buf, PREFACE) THEN ParseIncomplete ELSE ParseError

\* The parts writev_all is given for a frame: the frame header and, when it
\* is not empty, the payload.
NumParts(kind) == IF kind = "SettingsAck" THEN 1 ELSE 2

\* Part `part` of the frame of event `ev` (0: the frame serve writes itself).
FramePart(ev, kind, stream, part) ==
    [ev |-> ev, kind |-> kind, stream |-> stream, part |-> part]

\* No frame being written.
NoEv == [id |-> 0, kind |-> "none", stream |-> 0, parts |-> 0]

\* The stream ids a client of the model opens.
StreamIds == {2 * i - 1 : i \in 1..MaxClientFrames}

\* ConnState::default() and the loops before they exist.
LoopsNew ==
    /\ s_ev = <<>> /\ s_read_task = "none" /\ s_write_task = "none"
    /\ s_cur = NoEv /\ s_streams = [id \in StreamIds |-> "Idle"]
    /\ s_handlers = {} /\ s_frames = <<>> /\ s_sent = <<>> /\ s_recv = <<>>

loopVars == <<s_ev, s_read_task, s_write_task, s_cur, s_streams, s_handlers,
              s_frames, s_sent, s_recv>>

\* The preface with the byte at position j replaced.
BadPreface(j) == [i \in 1..Len(PREFACE) |-> IF i = j THEN 0 ELSE PREFACE[i]]

\* What the client delivers in place of the preface: all of it, a part of
\* it before closing, or a wrong byte in it.
PrefaceInputs ==
    {PREFACE}
      \cup {SubSeq(PREFACE, 1, k) : k \in {0, 1, Len(PREFACE) - 1}}
      \cup {BadPreface(j) : j \in {1, Len(PREFACE)}}

\* Mutant: the assignment is missing, the default stays.
self_settings_max_default(conf) == DefaultMaxStreams

\* `state.self_settings.max_concurrent_streams = conf.max_streams`
self_settings_max(conf) == conf

\* serve is entered: `state.self_settings.max_concurrent_streams =
\* conf.max_streams`, client_buf holding the first bytes already or not.
ServeInit ==
    /\ s_pc = "preface" /\ s_result = "none" /\ s_transport_w = <<>>
    /\ s_conf \in (1..MaxConfStreams) \cup {DefaultMaxStreams}
    /\ s_max_concurrent_streams = self_settings_max(s_conf)
    /\ s_n = -1
    /\ \E input \in PrefaceInputs, have \in 0..MaxInitBuf :
          /\ s_input = input
          /\ s_client_buf = SubSeq(input, 1, Min(have, Len(input)))
          /\ s_transport_r = SubSeq(input, Min(have, Len(input)) + 1, Len(input))
    /\ LoopsNew

\* serve returns r.
ServeReturn(r) == s_pc' = "returned" /\ s_result' = r

\* ---- read_and_parse(parse::preface, .., client_buf, PREFACE.len())

\* The parser answers Ok: `buf.keep(rest)`, and serve goes on.
PrefaceOk ==
    /\ s_pc = "preface"
    /\ preface(s_client_buf).verdict = "Ok"
    /\ s_client_buf' = buf_after_ok(s_client_buf, preface(s_client_buf).k)
    /\ s_pc' = "settings"
    /\ UNCHANGED s_n
    /\ UNCHANGED nonServeVars
    /\ UNCHANGED <<s_conf, s_input, s_max_concurrent_streams, s_transport_r,
                   s_transport_w, loopVars, s_result>>

\* Mutant: the parsing error is dropped and serve goes on.
PrefaceError_goes_on ==
    /\ s_pc = "preface"
    /\ preface(s_client_buf).verdict = "Error"
    /\ s_pc' = "settings"
    /\ UNCHANGED s_n
    /\ UNCHANGED nonServeVars
    /\ UNCHANGED <<s_conf, s_input, s_max_concurrent_streams, s_client_buf,
                   s_transport_r, s_transport_w, loopVars, s_result>>

\* The parser answers Error: `.await?` returns the parsing error.
PrefaceError ==
    /\ s_pc = "preface"
    /\ preface(s_client_buf).verdict = "Error"
    /\ ServeReturn("ParsingError")
    /\ UNCHANGED s_n
    /\ UNCHANGED nonServeVars
    /\ UNCHANGED <<s_conf, s_input, s_max_concurrent_streams, s_client_buf,
                   s_transport_r, s_transport_w, loopVars>>

\* The parser answers Incomplete: the buffer is below max_len (a proper
\* prefix of the preface is), so a read is issued.
PrefaceRefill ==
    /\ s_pc = "preface"
    /\ preface(s_client_buf).verdict = "Incomplete"
    /\ ~limit_reached(roll_len(s_client_buf), Len(PREFACE))
    /\ s_pc' = "rd_preface"
    /\ UNCHANGED s_n
    /\ UNCHANGED nonServeVars
    /\ UNCHANGED <<s_conf, s_input, s_max_concurrent_streams, s_client_buf,
                   s_transport_r, s_transport_w, loopVars, s_result>>

\* Mutant: the None arm is missing, end of stream is an error always.
after_eof_error(buf) == "UnexpectedEof"

\* What serve does with read_and_parse's answer at end of stream: None is
\* `return Ok(())`, the unexpected-EOF error is returned by `?`.
after_eof(buf) == IF eof_result(buf) = "None" THEN "Ok" ELSE "UnexpectedEof"

\* read_into returns n: n > 0 appends the bytes and runs the parser again,
\* n = 0 (the client closed) ends serve.
PrefaceRead(n) ==
    /\ s_pc = "rd_preface"
    /\ n <= Min(read_into_max(Len(PREFACE) - roll_len(s_client_buf), BlockCap),
                Len(s_transport_r))
    /\ n = 0 => s_transport_r = <<>>
    /\ s_transport_r' = SubSeq(s_transport_r, n + 1, Len(s_transport_r))
    /\ IF n > 0
       THEN /\ s_client_buf' = s_client_buf \o SubSeq(s_transport_r, 1, n)
            /\ s_pc' = "preface"
            /\ UNCHANGED s_result
       ELSE /\ ServeReturn(after_eof(s_client_buf))
            /\ UNCHANGED s_client_buf
    /\ s_n' = ReadMark(n)
    /\ UNCHANGED nonServeVars
    /\ UNCHANGED <<s_conf, s_input, s_max_concurrent_streams, s_transport_w, loopVars>>

\* The read fails, or the reserve before it: `.await?` returns the error.
PrefaceReadFails ==
    /\ s_pc = "rd_preface"
    /\ ServeReturn("IoError")
    /\ s_n' = -2
    /\ UNCHANGED nonServeVars
    /\ UNCHANGED <<s_conf, s_input, s_max_concurrent_streams, s_client_buf,
                   s_transport_r, s_transport_w, loopVars>>

\* ---- the SETTINGS frame

\* Mutant: the frame carries the ACK flag.
settings_frame_ack(part) == FramePart(0, "SettingsAck", 0, part)

\* Part `part` of `Frame::new(FrameType::Settings(Default::default()),
\* StreamId::CONNECTION)` with its payload: frame_roll, then payload_roll.
settings_frame(part) == FramePart(0, "Settings", 0, part)

\* Parts of serve's own frame written so far.
SettingsWritten == Len(s_transport_w)

\* `transport_w.writev_all(vec![frame_roll, payload_roll])`, one part at a
\* time.
WriteSettingsPart ==
    /\ s_pc = "settings" /\ SettingsWritten < NumParts("Settings")
    /\ s_transport_w' = Append(s_transport_w,
                               settings_frame(SettingsWritten + 1))
    /\ UNCHANGED s_n
    /\ UNCHANGED nonServeVars
    /\ UNCHANGED <<s_pc, s_conf, s_input, s_max_concurrent_streams, s_client_buf,
                   s_transport_r, loopVars, s_result>>

\* RollMut::alloc()?, into_roll(..)? or writev_all(..).await? fails.
SettingsFails ==
    /\ s_pc = "settings" /\ SettingsWritten < NumParts("Settings")
    /\ ServeReturn("SettingsError")
    /\ UNCHANGED s_n
    /\ UNCHANGED nonServeVars
    /\ UNCHANGED <<s_conf, s_input, s_max_concurrent_streams, s_client_buf,
                   s_transport_r, s_transport_w, loopVars>>

\* `let (ev_tx, ev_rx) = channel(32)`, the two loops are made and try_join!
\* polls them.
StartLoops ==
    /\ s_pc = "settings" /\ SettingsWritten = NumParts("Settings")
    /\ s_pc' = "joined"
    /\ s_read_task' = "running" /\ s_write_task' = "running"
    /\ UNCHANGED s_n
    /\ UNCHANGED nonServeVars
    /\ UNCHANGED <<s_conf, s_input, s_max_concurrent_streams, s_client_buf,
                   s_transport_r, s_transport_w, s_ev, s_cur, s_streams,
                   s_handlers, s_frames, s_sent, s_recv, s_result>>

\* ---- try_join! and what serve makes of its result

\* Mutant: ConnectionClosed counts as a clean end whichever loop raised it.
join_result_any_closed(side, out) ==
    IF out \in {"ok", "closed"} THEN "Ok" ELSE "LoopError::" \o side

\* `if let LoopError::Read(r) = e { if r.downcast_ref::<ConnectionClosed>()
\* .is_some() { return Ok(()) } }`, then `res?; Ok(())`: what serve returns
\* when the loop `side` ended with `out` and ended the join.
join_result(side, out) ==
    IF out = "ok" THEN "Ok"
    ELSE IF side = "Read" /\ out = "closed" THEN "Ok"
    ELSE "LoopError::" \o side

\* A task as try_join! leaves it when the other task's error ends the join:
\* a future still pending is dropped.
dropped(task) == IF task \in {"running", "writing"} THEN "dropped" ELSE task

\* The loop `side` ends with `out` ("ok", "closed" for ConnectionClosed,
\* "failed" for another error): an error ends the join at once and the other
\* task is dropped; Ok ends it when the other task has ended Ok too.
LoopEnds(side, out) ==
    LET other == IF side = "Read" THEN s_write_task ELSE s_read_task
        ends == out # "ok" \/ other = "ok"
        left == IF out # "ok" THEN dropped(other) ELSE other
    IN  /\ s_pc = "joined"
        /\ IF side = "Read"
           THEN s_read_task' = out /\ s_write_task' = left
           ELSE s_write_task' = out /\ s_read_task' = left
        /\ IF ends
           THEN ServeReturn(join_result(side, out))
           ELSE UNCHANGED <<s_pc, s_result>>

\* ---- the read loop

\* RST_STREAM error code REFUSED_STREAM (RFC 7540, 7).
REFUSED_STREAM == 7

\* The event `kind` for `stream`, with an error code where it has one.
Ev(kind, stream, code) ==
    [id |-> Len(s_sent) + 1, kind |-> kind, stream |-> stream, code |-> code]

\* ev_tx.send(ev).await, the channel having room.
Send(ev) ==
    /\ Len(s_ev) < EvChanCap
    /\ s_ev' = Append(s_ev, ev)
    /\ s_sent' = Append(s_sent, ev)

\* Streams that count against max_concurrent_streams.
Active == {"Open", "HalfClosedLocal", "HalfClosedRemote"}
OpenCount(streams) == Cardinality({id \in StreamIds : streams[id] \in Active})

\* The id of the next stream the client opens.
NextStreamId ==
    2 * Len(SelectSeq(s_frames, LAMBDA f : f.kind = "Headers")) + 1

\* A frame from the client.
ClientFrame(kind, stream, end_stream) ==
    [kind |-> kind, stream |-> stream, end_stream |-> end_stream]

\* The client may send f next: SETTINGS, HEADERS opening its next stream,
\* or DATA with END_STREAM or RST_STREAM on a stream that is open to it.
ClientSends(f) ==
    \/ f = ClientFrame("Settings", 0, FALSE)
    \/ f.kind = "Headers" /\ f.stream = NextStreamId
    \/ f = ClientFrame("Data", f.stream, TRUE)
          /\ f.stream \in StreamIds
          /\ s_streams[f.stream] \in {"Open", "HalfClosedLocal"}
    \/ f = ClientFrame("RstStream", f.stream, TRUE)
          /\ f.stream \in StreamIds
          /\ s_streams[f.stream] \in Active

\* Mutant: the limit is compared one too late.
at_limit_late(count, max) == count > max

\* Concurrent streams already equal max_concurrent_streams.
at_limit(count, max) == count >= max

\* The read loop reads the frame f and acts on it.
ReadFrame(f) ==
    /\ s_pc = "joined" /\ s_read_task = "running"
    /\ Len(s_frames) < MaxClientFrames
    /\ ClientSends(f)
    /\ s_frames' = Append(s_frames, f)
    /\ CASE f.kind = "Settings" ->
              /\ Send(Ev("AckSettings", 0, 0))
              /\ UNCHANGED <<s_streams, s_handlers>>
         [] f.kind = "Headers" ->
              IF at_limit(OpenCount(s_streams), s_max_concurrent_streams)
              THEN /\ Send(Ev("RstStream", f.stream, REFUSED_STREAM))
                   /\ UNCHANGED <<s_streams, s_handlers>>
              ELSE /\ s_streams' = [s_streams EXCEPT ![f.stream] =
                         IF f.end_stream THEN "HalfClosedRemote" ELSE "Open"]
                   /\ s_handlers' = s_handlers \cup
                                      {[stream |-> f.stream, todo |-> 2]}
                   /\ UNCHANGED <<s_ev, s_sent>>
         [] f.kind = "Data" ->
              /\ s_streams' = [s_streams EXCEPT ![f.stream] =
                    IF @ = "Open" THEN "HalfClosedRemote"
                    ELSE IF @ = "HalfClosedLocal" THEN "Closed" ELSE @]
              /\ UNCHANGED <<s_ev, s_sent, s_handlers>>
         [] f.kind = "RstStream" ->
              /\ s_streams' = [s_streams EXCEPT ![f.stream] = "Closed"]
              /\ s_handlers' = {h \in s_handlers : h.stream # f.stream}
              /\ UNCHANGED <<s_ev, s_sent>>
    /\ UNCHANGED s_n
    /\ UNCHANGED nonServeVars
    /\ UNCHANGED <<s_pc, s_conf, s_input, s_max_concurrent_streams, s_client_buf,
                   s_transport_r, s_transport_w, s_read_task, s_write_task,
                   s_cur, s_recv, s_result>>

\* The read loop ends: the client closed (ConnectionClosed), another error,
\* or without error.
ReadLoopEnds(out) ==
    /\ s_read_task = "running"
    /\ LoopEnds("Read", out)
    /\ UNCHANGED s_n
    /\ UNCHANGED nonServeVars
    /\ UNCHANGED <<s_conf, s_input, s_max_concurrent_streams, s_client_buf,
                   s_transport_r, s_transport_w, s_ev, s_cur, s_streams,
                   s_handlers, s_frames, s_sent, s_recv>>

\* ---- handlers

\* The handler of a stream sends its response: HEADERS, then DATA with
\* END_STREAM, which closes our side of the stream.
HandlerSends(h) ==
    /\ s_pc = "joined" /\ h \in s_handlers
    /\ Send(Ev(IF h.todo = 2 THEN "Headers" ELSE "Data", h.stream, 0))
    /\ IF h.todo = 2
       THEN /\ s_handlers' = (s_handlers \ {h})
                                \cup {[stream |-> h.stream, todo |-> 1]}
            /\ UNCHANGED s_streams
       ELSE /\ s_handlers' = s_handlers \ {h}
            /\ s_streams' = [s_streams EXCEPT ![h.stream] =
                  IF @ = "Open" THEN "HalfClosedLocal"
                  ELSE IF @ = "HalfClosedRemote" THEN "Closed" ELSE @]
    /\ UNCHANGED s_n
    /\ UNCHANGED nonServeVars
    /\ UNCHANGED <<s_pc, s_conf, s_input, s_max_concurrent_streams, s_client_buf,
                   s_transport_r, s_transport_w, s_read_task, s_write_task,
                   s_cur, s_frames, s_recv, s_result>>

\* ---- the write loop

\* The frame an event is written as.
frame_kind(ev_kind) == IF ev_kind = "AckSettings" THEN "SettingsAck" ELSE ev_kind

\* Mutant: the newest event is received first.
chan_recv_last(q) == [ev |-> Last(q), rest |-> SubSeq(q, 1, Len(q) - 1)]

\* ev_rx.recv().await on a channel that holds an event: the oldest.
chan_recv(q) == [ev |-> Head(q), rest |-> Tail(q)]

\* The write loop receives the next event.
WriteLoopRecv ==
    /\ s_pc = "joined" /\ s_write_task = "running" /\ s_ev # <<>>
    /\ LET r == chan_recv(s_ev)
       IN  /\ s_ev' = r.rest
           /\ s_recv' = Append(s_recv, r.ev)
           /\ s_cur' = [id |-> r.ev.id, kind |-> r.ev.kind,
                        stream |-> r.ev.stream, parts |-> 0]
    /\ s_write_task' = "writing"
    /\ UNCHANGED s_n
    /\ UNCHANGED nonServeVars
    /\ UNCHANGED <<s_pc, s_conf, s_input, s_max_concurrent_streams, s_client_buf,
                   s_transport_r, s_transport_w, s_read_task, s_streams,
                   s_handlers, s_frames, s_sent, s_result>>

\* Mutant: the write loop is back at recv after the first part of a frame.
frame_done_early(cur) == cur.parts + 1 >= 1

\* The part about to be written is the frame's last.
frame_done(cur) == cur.parts + 1 >= NumParts(frame_kind(cur.kind))

\* The write loop writes the next part of the frame of the event it holds.
WriteLoopWrites ==
    /\ s_pc = "joined" /\ s_write_task = "writing"
    /\ s_transport_w' = Append(s_transport_w,
          FramePart(s_cur.id, frame_kind(s_cur.kind), s_cur.stream,
                    s_cur.parts + 1))
    /\ IF frame_done(s_cur)
       THEN s_write_task' = "running" /\ s_cur' = NoEv
       ELSE /\ s_cur' = [s_cur EXCEPT !.parts = @ + 1]
            /\ UNCHANGED s_write_task
    /\ UNCHANGED s_n
    /\ UNCHANGED nonServeVars
    /\ UNCHANGED <<s_pc, s_conf, s_input, s_max_concurrent_streams, s_client_buf,
                   s_transport_r, s_ev, s_read_task, s_streams, s_handlers,
                   s_frames, s_sent, s_recv, s_result>>

\* The write loop ends: with an error (a failed write, or ConnectionClosed)
\* at any point, without error between two frames.
WriteLoopEnds(out) ==
    /\ s_write_task \in {"running", "writing"}
    /\ out = "ok" => s_write_task = "running"
    /\ LoopEnds("Write", out)
    /\ UNCHANGED s_n
    /\ UNCHANGED nonServeVars
    /\ UNCHANGED <<s_conf, s_input, s_max_concurrent_streams, s_client_buf,
                   s_transport_r, s_transport_w, s_ev, s_cur, s_streams,
                   s_handlers, s_frames, s_sent, s_recv>>

ServeNext ==
    \/ PrefaceOk
    \/ PrefaceError
    \/ PrefaceRefill
    \/ \E n \in 0..BlockCap : PrefaceRead(n)
    \/ PrefaceReadFails
    \/ WriteSettingsPart
    \/ SettingsFails
    \/ StartLoops
    \/ \E kind \in {"Settings", "Headers", "Data", "RstStream"},
          stream \in StreamIds \cup {0}, end_stream \in BOOLEAN :
             ReadFrame(ClientFrame(kind, stream, end_stream))
    \/ \E out \in {"ok", "closed", "failed"} : ReadLoopEnds(out)
    \/ \E stream \in StreamIds, todo \in 1..2 :
          HandlerSends([stream |-> stream, todo |-> todo])
    \/ WriteLoopRecv
    \/ WriteLoopWrites
    \/ \E out \in {"ok", "closed", "failed"} : WriteLoopEnds(out)

\* ======================================================================
\*  The aggregate buffers: AggBuf (src/src/bufpool/agg.rs) and
\*  AggregateBuf (src/src/parse/aggregate.rs)
\* ======================================================================
\* block_size. The pool's BUF_SIZE is defined outside src/; the model keeps
\* the blocks short so that a few bytes cross a block boundary.
AggBlockSize == 2

\* Blocks the pool hands out before BufMut::alloc returns Err.
MaxAggBlocks == 2

\* `a - b` on u32 in a build without overflow checks; the model keeps 16
\* of the 32 bits, as it does for usize.
unchecked_sub(a, b) == (a - b) % UsizeModulus

\* AggBufInner::new (agg.rs): no block. AggregateBufInner::new
\* (aggregate.rs): one block, fresh from the pool.
NoBlocks == [blocks |-> <<>>, off |-> 0, len |-> 0]
ZeroedBlock == [i \in 1..AggBlockSize |-> 0]
OneBlock(id) == [blocks |-> <<id>>, off |-> 0, len |-> 0]

\* The inner of the live buffer.
Live == a_inner

\* The inner a slice looks into. split and split_at take the buffer by
\* value, so that the inner they leave behind is written no more and only
\* the slices taken from it still hold it; they read its blocks and its
\* off, and its len is not kept.
SliceInner(s) == IF s.live THEN a_inner ELSE s.inner
Left(slices) ==
    {IF s.live
     THEN [s EXCEPT !.live = FALSE, !.inner = [a_inner EXCEPT !.len = 0]]
     ELSE s : s \in slices}

\* How many bytes have been written into the pool's blocks. The k-th byte
\* written has the value k, so that every byte of the input is told apart.
Written(mem) ==
    Cardinality({c \in (DOMAIN mem) \X (1..AggBlockSize) : mem[c[1]][c[2]] # 0})

\* capacity(): blocks.len() as u32 * block_size - off
capacity_underflows(inner) == Len(inner.blocks) * AggBlockSize < inner.off
capacity(inner) == unchecked_sub(Len(inner.blocks) * AggBlockSize, inner.off)

\* Mutant: the global offset is left out of the index.
block_start_no_off(inner, start) == start
\* contiguous_range: `let start = start + self.off`
block_start(inner, start) == (start + inner.off) % UsizeModulus

\* contiguous_range(wanted): the index of a block and a range into it.
contiguous_range(inner, start, end) ==
    IF start = end
    THEN [block_index |-> 0, lo |-> 0, hi |-> 0]
    ELSE LET wanted == end - start
             from == block_start(inner, start)
             block_offset == from % AggBlockSize
             avail == AggBlockSize - block_offset
             given == Min(avail, wanted)
         IN  [block_index |-> from \div AggBlockSize,
              lo |-> block_offset, hi |-> block_offset + given]

\* `&self.blocks[block_index][range]` panics when the index is past the
\* blocks the buffer holds.
IndexPanics(inner, r) == r.block_index >= Len(inner.blocks)
BlockBytes(mem, inner, r) ==
    SubSeq(mem[inner.blocks[r.block_index + 1]], r.lo + 1, r.hi)

\* AggSliceIter::next over a slice, as to_vec collects it: one byte at a
\* time, each found by contiguous_range(global_off..global_off + 1).
to_vec(mem, inner, off, len) ==
    [i \in 1..len |->
        LET r == contiguous_range(inner, off + i - 1, off + i)
        IN  IF IndexPanics(inner, r) THEN -1
            ELSE mem[inner.blocks[r.block_index + 1]][r.lo + 1]]

\* What the operation before this state was, with the range it read and
\* the bytes it gave if it was a read.
AggOp(op, arg, out) == [op |-> op, arg |-> arg, out |-> out]

AggInit ==
    /\ a_impl \in {"AggBuf", "AggregateBuf"}
    /\ IF a_impl = "AggBuf"
       THEN a_mem = <<>> /\ a_inner = NoBlocks
       ELSE a_mem = <<ZeroedBlock>> /\ a_inner = OneBlock(1)
    /\ a_data = <<>>
    /\ a_slices = {}
    /\ a_pc = "live"
    /\ a_underflow = FALSE
    /\ a_last = AggOp("new", <<>>, "ok")

AggLive == a_pc = "live"

\* What an operation that panics leaves behind.
AggPanics(op, arg, underflow) ==
    /\ a_pc' = "panicked"
    /\ a_underflow' = (a_underflow \/ underflow)
    /\ a_last' = AggOp(op, arg, "panic")
    /\ UNCHANGED nonAggVars
    /\ UNCHANGED <<a_impl, a_mem, a_inner, a_data, a_slices>>

\* AggBufInner::grow_if_needed returns early while len < capacity();
\* AggregateBufInner::grow_if_needed has no such test.
has_room(impl, inner) == impl = "AggBuf" /\ inner.len < capacity(inner)

\* grow_if_needed with room left (agg.rs): Ok(()) and nothing else.
GrowNotNeeded ==
    /\ AggLive
    /\ has_room(a_impl, Live)
    /\ a_last' = AggOp("grow_if_needed", <<>>, "ok")
    /\ UNCHANGED nonAggVars
    /\ UNCHANGED <<a_impl, a_mem, a_inner, a_data, a_slices, a_pc,
                   a_underflow>>

\* grow_if_needed: BufMut::alloc()? and blocks.push(block).
GrowPushes ==
    /\ AggLive
    /\ ~has_room(a_impl, Live)
    /\ Len(a_mem) < MaxAggBlocks
    /\ a_mem' = Append(a_mem, ZeroedBlock)
    /\ a_inner' = [Live EXCEPT !.blocks = Append(@, Len(a_mem) + 1)]
    /\ a_last' = AggOp("grow_if_needed", <<>>, "ok")
    /\ UNCHANGED nonAggVars
    /\ UNCHANGED <<a_impl, a_data, a_slices, a_pc, a_underflow>>

\* grow_if_needed: the pool has no block left and alloc's Err is returned.
GrowFails ==
    /\ AggLive
    /\ ~has_room(a_impl, Live)
    /\ Len(a_mem) >= MaxAggBlocks
    /\ a_last' = AggOp("grow_if_needed", <<>>, "err")
    /\ UNCHANGED nonAggVars
    /\ UNCHANGED <<a_impl, a_mem, a_inner, a_data, a_slices, a_pc,
                   a_underflow>>

\* The range unfilled_mut and write_slice hand out:
\* contiguous_range(len..capacity()).
unfilled_range(inner) == contiguous_range(inner, inner.len, capacity(inner))

\* unfilled_mut, a copy of n bytes into it and advance(n), the body of
\* put's loop; write_slice, a read of n bytes and into_inner do the same to
\* the buffer. AggBuf::unfilled_mut gives an empty slice when there is no
\* block.
Fill(n) ==
    /\ AggLive
    /\ Len(Live.blocks) > 0
    /\ ~capacity_underflows(Live)
    /\ LET inner == Live
           r == unfilled_range(inner)
           id == inner.blocks[r.block_index + 1]
           first == Written(a_mem)
       IN  /\ ~IndexPanics(inner, r)
           /\ n <= r.hi - r.lo
           /\ inner.len + n <= capacity(inner)
           /\ a_mem' = [a_mem EXCEPT ![id] =
                  [j \in 1..AggBlockSize |->
                      IF j > r.lo /\ j <= r.lo + n
                      THEN first + (j - r.lo) ELSE @[j]]]
           /\ a_inner' = [inner EXCEPT !.len = @ + n]
           /\ a_data' = a_data \o [k \in 1..n |-> first + k]
    /\ a_last' = AggOp("fill", <<>>, "ok")
    /\ UNCHANGED nonAggVars
    /\ UNCHANGED <<a_impl, a_slices, a_pc, a_underflow>>

\* unfilled_mut on a buffer whose off is past its blocks: capacity()
\* underflows, and where that does not panic the block index is out of
\* bounds.
FillPanics ==
    /\ AggLive
    /\ Len(Live.blocks) > 0
    /\ \/ capacity_underflows(Live)
       \/ IndexPanics(Live, unfilled_range(Live))
    /\ AggPanics("fill", <<>>, capacity_underflows(Live))

\* read().slice(a..b): asserts a <= b <= len; the slice shares the inner.
slice(a, b) ==
    [live |-> TRUE, inner |-> NoBlocks, off |-> a, len |-> b - a,
     snap |-> to_vec(a_mem, Live, a, b - a)]

\* read_slice().take_split(k), as a parser does: the k bytes it took from
\* the front and the rest; count <= len or take_split panics. The slices of
\* the parse before are dropped.
TakeSplit(k) ==
    /\ AggLive
    /\ k <= Live.len
    /\ a_slices' = {slice(0, k), slice(k, Live.len)}
    /\ a_last' = AggOp("take_split", <<>>, "ok")
    /\ UNCHANGED nonAggVars
    /\ UNCHANGED <<a_impl, a_mem, a_inner, a_data, a_pc, a_underflow>>

\* read().filled(a..b): asserts b <= len, then indexes the block
\* contiguous_range names; (0, 0..0) for an empty range.
Filled(a, b) ==
    /\ AggLive
    /\ a <= b /\ b <= Live.len
    /\ LET r == contiguous_range(Live, a, b)
       IN  /\ ~IndexPanics(Live, r)
           /\ a_last' = AggOp("filled", <<a, b>>, BlockBytes(a_mem, Live, r))
    /\ UNCHANGED nonAggVars
    /\ UNCHANGED <<a_impl, a_mem, a_inner, a_data, a_slices, a_pc,
                   a_underflow>>

\* read().slice(a..b).to_vec(): the bytes AggSliceIter yields.
Iterated(a, b) ==
    /\ AggLive
    /\ a <= b /\ b <= Live.len
    /\ a_last' = AggOp("to_vec", <<a, b>>, to_vec(a_mem, Live, a, b - a))
    /\ UNCHANGED nonAggVars
    /\ UNCHANGED <<a_impl, a_mem, a_inner, a_data, a_slices, a_pc,
                   a_underflow>>

\* filled(0..0) on a buffer without a block indexes blocks[0].
FilledPanics(a, b) ==
    /\ AggLive
    /\ a <= b /\ b <= Live.len
    /\ IndexPanics(Live, contiguous_range(Live, a, b))
    /\ AggPanics("filled", <<>>, FALSE)

\* split_at: the locals of the same names.
abs_block_start(inner) ==
    (unchecked_sub(Len(inner.blocks), 1) * AggBlockSize) % UsizeModulus
abs_filled_end(inner) == inner.len + inner.off
\* Mutant: the split is made at the start of the buffer, whatever rest is.
abs_rest_start_of_buf(inner, rest_off) == inner.off
abs_rest_start(inner, rest_off) == rest_off + inner.off

\* Mutant: the new buffer starts out empty.
new_inner_len_zero(rel_filled_end, rel_rest_start) == 0
\* split_at: `len: rel_filled_end - rel_rest_start` of new_inner
new_inner_len(rel_filled_end, rel_rest_start) ==
    rel_filled_end - rel_rest_start

\* AggBuf::split_at(rest), rest a slice of this buffer at rest_off. With no
\* block `blocks.len() as u32 - 1` goes below zero: the build with overflow
\* checks panics there, the build without them wraps and fails the first
\* assertion, so that either build panics.
agg_split_at(inner, rest_off) ==
    LET block_start_ == abs_block_start(inner)
        filled_end == abs_filled_end(inner)
        rest_start == abs_rest_start(inner, rest_off)
        underflow == Len(inner.blocks) = 0
        rel_filled_end == filled_end - block_start_
        rel_rest_start == rest_start - block_start_
    IN  IF \/ ~(block_start_ <= rest_start)
           \/ ~(rest_start <= filled_end)
        THEN [out |-> "panic", underflow |-> underflow, inner |-> NoBlocks]
        ELSE IF rel_rest_start = AggBlockSize
        THEN [out |-> "ok", underflow |-> FALSE, inner |-> NoBlocks]
        ELSE [out |-> "ok", underflow |-> FALSE,
              inner |-> [blocks |-> <<inner.blocks[Len(inner.blocks)]>>,
                         off |-> rel_rest_start,
                         len |-> new_inner_len(rel_filled_end,
                                               rel_rest_start)]]

\* What a split that returns leaves behind: the old inner stays as the
\* slices see it, the new one is the live buffer.
AggSplits(op, arg, inner, data) ==
    /\ a_inner' = inner
    /\ a_data' = data
    /\ a_last' = AggOp(op, arg, "ok")
    /\ UNCHANGED nonAggVars
    /\ UNCHANGED <<a_impl, a_mem, a_pc, a_underflow>>

\* buf.split_at(rest) for a slice held, a slice of this buffer that starts
\* at a; rest is moved into split_at and dropped there.
AggSplitAt(a) ==
    /\ AggLive
    /\ a_impl = "AggBuf"
    /\ \E rest \in a_slices :
          /\ rest.live /\ rest.off = a
          /\ LET new == agg_split_at(Live, rest.off)
             IN  /\ new.out = "ok"
                 /\ AggSplits("split_at", <<>>, new.inner,
                              SubSeq(a_data, rest.off + 1, Len(a_data)))
                 /\ a_slices' = Left(a_slices \ {rest})

\* split_at fails an assertion.
AggSplitAtPanics(a) ==
    /\ AggLive
    /\ a_impl = "AggBuf"
    /\ \E rest \in a_slices :
          /\ rest.live /\ rest.off = a
          /\ LET new == agg_split_at(Live, rest.off)
             IN  /\ new.out = "panic"
                 /\ AggPanics("split_at", <<>>, new.underflow)

\* AggBuf::split: split_at(read().slice(len..len)).
AggBufSplit ==
    /\ AggLive
    /\ a_impl = "AggBuf"
    /\ LET new == agg_split_at(Live, Live.len)
       IN  /\ new.out = "ok"
           /\ AggSplits("split", <<>>, new.inner, <<>>)
           /\ a_slices' = Left(a_slices)

AggBufSplitPanics ==
    /\ AggLive
    /\ a_impl = "AggBuf"
    /\ LET new == agg_split_at(Live, Live.len)
       IN  /\ new.out = "panic"
           /\ AggPanics("split", <<>>, new.underflow)

\* AggregateBuf::split: the locals of the same names.
reusable(inner) == unchecked_sub(capacity(inner), inner.len)
global_off(inner) == unchecked_sub(AggBlockSize, reusable(inner))
global_off_underflows(inner) == AggBlockSize < reusable(inner)

\* AggregateBuf::split with room left: the new buffer re-uses the last
\* block from global_off on. Where block_size - reusable goes below zero,
\* this is what the build without overflow checks does.
AggregateSplit ==
    /\ AggLive
    /\ a_impl = "AggregateBuf"
    /\ reusable(Live) # 0
    /\ a_inner' = [blocks |-> <<Live.blocks[Len(Live.blocks)]>>,
                   off |-> global_off(Live), len |-> 0]
    /\ a_slices' = Left(a_slices)
    /\ a_data' = <<>>
    /\ a_underflow' = (a_underflow \/ capacity_underflows(Live)
                                   \/ global_off_underflows(Live))
    /\ a_last' = AggOp("split", <<>>, "ok")
    /\ UNCHANGED nonAggVars
    /\ UNCHANGED <<a_impl, a_mem, a_pc>>

\* AggregateBuf::split in a build with overflow checks, where
\* block_size - reusable goes below zero.
AggregateSplitPanics ==
    /\ AggLive
    /\ a_impl = "AggregateBuf"
    /\ ~a_underflow
    /\ reusable(Live) # 0
    /\ global_off_underflows(Live)
    /\ AggPanics("split", <<>>, TRUE)

\* AggregateBuf::split with nothing to re-use: Self::new(), a buffer over
\* one fresh block.
AggregateSplitNew ==
    /\ AggLive
    /\ a_impl = "AggregateBuf"
    /\ ~capacity_underflows(Live)
    /\ reusable(Live) = 0
    /\ Len(a_mem) < MaxAggBlocks
    /\ a_mem' = Append(a_mem, ZeroedBlock)
    /\ a_inner' = OneBlock(Len(a_mem) + 1)
    /\ a_slices' = Left(a_slices)
    /\ a_data' = <<>>
    /\ a_last' = AggOp("split", <<>>, "ok")
    /\ UNCHANGED nonAggVars
    /\ UNCHANGED <<a_impl, a_pc, a_underflow>>

\* ... and the pool has no block left: split returns Err and the buffer,
\* moved into split, is gone.
AggregateSplitFails ==
    /\ AggLive
    /\ a_impl = "AggregateBuf"
    /\ ~capacity_underflows(Live)
    /\ reusable(Live) = 0
    /\ Len(a_mem) >= MaxAggBlocks
    /\ a_pc' = "lost"
    /\ a_last' = AggOp("split", <<>>, "err")
    /\ UNCHANGED nonAggVars
    /\ UNCHANGED <<a_impl, a_mem, a_inner, a_data, a_slices,
                   a_underflow>>

AggNext ==
    \/ GrowNotNeeded
    \/ GrowPushes
    \/ GrowFails
    \/ \E n \in 1..AggBlockSize : Fill(n)
    \/ FillPanics
    \/ \E k \in 0..MaxAggBlocks * AggBlockSize : TakeSplit(k)
    \/ \E a \in 0..MaxAggBlocks * AggBlockSize : AggSplitAt(a)
    \/ \E a \in 0..MaxAggBlocks * AggBlockSize : AggSplitAtPanics(a)
    \/ AggBufSplit
    \/ AggBufSplitPanics
    \/ AggregateSplit
    \/ AggregateSplitPanics
    \/ AggregateSplitNew
    \/ AggregateSplitFails

\* ======================================================================
\*  FindSubstring for AggSlice (src/src/bufpool/agg.rs)
\* ======================================================================
\* The longest slice and the longest needle, and the bytes they are made of.
MaxHayLen == 4
MaxNeedleLen == 2
FindBytes == {"a", "b"}

\* The sequences over bytes of the lengths from..to.
BytesOfLen(bytes, from, to) ==
    UNION {[1..n -> bytes] : n \in from..to}

FindInit ==
    /\ f_hay \in BytesOfLen(FindBytes, 0, MaxHayLen)
    /\ f_needle \in BytesOfLen(FindBytes, 1, MaxNeedleLen)
    /\ f_i = 0
    /\ f_offset = -1
    /\ f_curr = 0
    /\ f_result = -2

\* The loop is at (i, c): the iterator has a byte to yield.
FindAt ==
    /\ f_result = -2
    /\ f_i < Len(f_hay)

\* `c == curr_substr[0]`, curr_substr being substr less the bytes matched
FindHit == f_hay[f_i + 1] = f_needle[f_curr + 1]

\* `if offset.is_none() { offset = Some(i) }`
FindOffset == IF f_offset = -1 THEN f_i ELSE f_offset

\* c is the next byte of curr_substr and bytes of it remain.
FindMatches ==
    /\ FindAt
    /\ FindHit
    /\ f_curr + 1 < Len(f_needle)
    /\ f_offset' = FindOffset
    /\ f_curr' = f_curr + 1
    /\ f_i' = f_i + 1
    /\ UNCHANGED <<f_hay, f_needle, f_result>>
    /\ UNCHANGED nonFindVars

\* c is the last byte of curr_substr: `return offset`.
FindReturns ==
    /\ FindAt
    /\ FindHit
    /\ f_curr + 1 = Len(f_needle)
    /\ f_offset' = FindOffset
    /\ f_curr' = f_curr + 1
    /\ f_i' = f_i + 1
    /\ f_result' = FindOffset
    /\ UNCHANGED <<f_hay, f_needle>>
    /\ UNCHANGED nonFindVars

\* c is another byte: `curr_substr = substr`, offset and c are left as they
\* are.
FindResets ==
    /\ FindAt
    /\ ~FindHit
    /\ f_curr' = 0
    /\ f_i' = f_i + 1
    /\ UNCHANGED <<f_hay, f_needle, f_offset, f_result>>
    /\ UNCHANGED nonFindVars

\* The iterator is exhausted: None.
FindGivesUp ==
    /\ f_result = -2
    /\ f_i = Len(f_hay)
    /\ f_result' = -1
    /\ UNCHANGED <<f_hay, f_needle, f_i, f_offset, f_curr>>
    /\ UNCHANGED nonFindVars

FindNext ==
    \/ FindMatches
    \/ FindReturns
    \/ FindResets
    \/ FindGivesUp

\* ======================================================================
\*  The AggBuf based H1Body, content-length bodies (src/src/h1/body.rs)
\* ======================================================================
\* The longest body announced, and the most bytes the transport delivers
\* before it ends.
MaxLegacyLen == 3
MaxLegacyStream == 3

\* Calls of next_chunk on one body.
MaxLegacyCalls == 4

\* The buffers H1Body is made with: what split_at left of the buffer the
\* head was parsed from, a buffer without blocks or one over the end of one
\* block, with the bytes read past the head.
LegacyBufs ==
    {NoBlocks} \cup
    {[blocks |-> <<1>>, off |-> off, len |-> len] :
        off \in 0..AggBlockSize - 1, len \in 0..AggBlockSize}

LegacyInit ==
    /\ lg_len \in 0..MaxLegacyLen
    /\ lg_read = 0
    /\ lg_eof = FALSE
    /\ lg_buf \in LegacyBufs
    /\ lg_buf.off + lg_buf.len <= Len(lg_buf.blocks) * AggBlockSize
    /\ lg_taken = FALSE
    /\ lg_stream \in 0..MaxLegacyStream
    /\ lg_pc = "idle"
    /\ lg_wanted = 0
    /\ lg_n = -1
    /\ lg_log = <<>>

\* next_chunk returns res.
LegacyReturns(res) ==
    /\ lg_log' = Append(lg_log, res)
    /\ lg_pc' = "idle"

\* `let wanted = len - self.read`
wanted_of(len, read) == len - read

\* next_chunk is called.
LegacyCalled == lg_pc = "idle" /\ Len(lg_log) < MaxLegacyCalls

\* next_chunk with self.eof set: Ok(Eof).
LgEof ==
    /\ LegacyCalled
    /\ lg_eof
    /\ LegacyReturns("Eof")
    /\ UNCHANGED <<lg_len, lg_read, lg_eof, lg_buf, lg_taken, lg_stream,
                   lg_wanted, lg_n>>
    /\ UNCHANGED nonLegacyVars

\* wanted == 0: eof is set and Ok(Eof) returned.
LgDone ==
    /\ LegacyCalled
    /\ ~lg_eof
    /\ wanted_of(lg_len, lg_read) = 0
    /\ lg_eof' = TRUE
    /\ LegacyReturns("Eof")
    /\ UNCHANGED <<lg_len, lg_read, lg_buf, lg_taken, lg_stream, lg_wanted,
                   lg_n>>
    /\ UNCHANGED nonLegacyVars

\* The call goes on to `self.buf.take().unwrap()`.
LgTakes ==
    /\ LegacyCalled
    /\ ~lg_eof
    /\ wanted_of(lg_len, lg_read) # 0

\* self.buf is None, left so by a call that returned an error: unwrap
\* panics.
LgUnwrapPanics ==
    /\ LgTakes
    /\ lg_taken
    /\ lg_pc' = "unwrap_failed"
    /\ UNCHANGED <<lg_len, lg_read, lg_eof, lg_buf, lg_taken, lg_stream,
                   lg_wanted, lg_n, lg_log>>
    /\ UNCHANGED nonLegacyVars

\* From `let copied = min(wanted, avail)` on: take_split(copied) of the read
\* slice, `self.read += prefix.len()`, `buf.split_at(suffix)` and
\* Ok(AggSlice(prefix)).
LegacyChunk(buf, avail) ==
    LET copied == Min(wanted_of(lg_len, lg_read), avail)
        new == agg_split_at(buf, copied)
    IN  /\ lg_read' = lg_read + copied
        /\ IF new.out = "ok"
           THEN /\ lg_buf' = new.inner
                /\ lg_taken' = FALSE
                /\ LegacyReturns("Chunk")
           ELSE /\ lg_buf' = buf
                /\ lg_taken' = TRUE
                /\ lg_pc' = "split_at_failed"
                /\ lg_log' = lg_log

\* Bytes are buffered (avail > 0): no read, and a chunk of them is
\* returned.
LgFromBuffer ==
    /\ LgTakes
    /\ ~lg_taken
    /\ lg_buf.len > 0
    /\ LegacyChunk(lg_buf, lg_buf.len)
    /\ UNCHANGED <<lg_len, lg_eof, lg_stream, lg_wanted, lg_n>>
    /\ UNCHANGED nonLegacyVars

\* avail == 0 and grow_if_needed fails for want of a block: `?` returns the
\* error, and the buffer taken out of self.buf goes with it.
LgAllocFails ==
    /\ LgTakes
    /\ ~lg_taken
    /\ lg_buf.len = 0
    /\ ~has_room("AggBuf", lg_buf)
    /\ lg_taken' = TRUE
    /\ LegacyReturns("Err")
    /\ UNCHANGED <<lg_len, lg_read, lg_eof, lg_buf, lg_stream, lg_wanted,
                   lg_n>>
    /\ UNCHANGED nonLegacyVars

\* avail == 0: grow_if_needed, write_slice().limit(wanted), and the read is
\* awaited.
LgStartsRead ==
    /\ LgTakes
    /\ ~lg_taken
    /\ lg_buf.len = 0
    /\ lg_buf' = IF has_room("AggBuf", lg_buf) THEN lg_buf
                 ELSE [lg_buf EXCEPT !.blocks = Append(@, Len(@) + 1)]
    /\ lg_taken' = TRUE
    /\ lg_wanted' = wanted_of(lg_len, lg_read)
    /\ lg_pc' = "reading"
    /\ UNCHANGED <<lg_len, lg_read, lg_eof, lg_stream, lg_n, lg_log>>
    /\ UNCHANGED nonLegacyVars

\* The length of the write slice: the range write_slice takes, cut to
\* wanted by limit.
write_slice_len(buf, limit) ==
    LET r == unfilled_range(buf) IN Min(r.hi - r.lo, limit)

\* `assert!(avail > 0)`: what the assertion is made on
asserted(avail) == avail

\* The read gave n bytes: into_inner, `avail += n`, the assertion, and the
\* chunk.
LgReadSome(n) ==
    /\ lg_pc = "reading"
    /\ n <= lg_stream
    /\ n <= write_slice_len(lg_buf, lg_wanted)
    /\ lg_stream' = lg_stream - n
    /\ lg_n' = n
    /\ LET buf == [lg_buf EXCEPT !.len = @ + n]
           avail == 0 + n
       IN  /\ asserted(avail) > 0
           /\ LegacyChunk(buf, avail)
    /\ UNCHANGED <<lg_len, lg_eof, lg_wanted>>
    /\ UNCHANGED nonLegacyVars

\* The transport is at its end and the read gives 0: avail stays 0 and
\* `assert!(avail > 0)` panics.
LgReadEof ==
    /\ lg_pc = "reading"
    /\ lg_stream = 0
    /\ lg_n' = 0
    /\ IF asserted(0) > 0
       THEN LegacyChunk(lg_buf, 0)
       ELSE /\ lg_pc' = "assert_failed"
            /\ UNCHANGED <<lg_read, lg_buf, lg_taken, lg_log>>
    /\ UNCHANGED <<lg_len, lg_eof, lg_stream, lg_wanted>>
    /\ UNCHANGED nonLegacyVars

\* The read fails: `res?` returns the error.
LgReadFails ==
    /\ lg_pc = "reading"
    /\ lg_n' = -2
    /\ LegacyReturns("Err")
    /\ UNCHANGED <<lg_len, lg_read, lg_eof, lg_buf, lg_taken, lg_stream,
                   lg_wanted>>
    /\ UNCHANGED nonLegacyVars

LegacyNext ==
    \/ LgEof
    \/ LgDone
    \/ LgUnwrapPanics
    \/ LgFromBuffer
    \/ LgAllocFails
    \/ LgStartsRead
    \/ \E n \in 1..AggBlockSize : LgReadSome(n)
    \/ LgReadEof
    \/ LgReadFails

\* The operations that read a buffer through its contiguous views, and
\* those that bring it into the states it is read in.
AggViewNext ==
    \/ GrowNotNeeded
    \/ GrowPushes
    \/ GrowFails
    \/ \E n \in 1..AggBlockSize : Fill(n)
    \/ AggBufSplit
    \/ AggregateSplit
    \/ AggregateSplitNew
    \/ \E a \in 0..MaxAggBlocks * AggBlockSize,
          b \in 0..MaxAggBlocks * AggBlockSize : Filled(a, b)
    \/ \E a \in {0}, b \in {0} : FilledPanics(a, b)
    \/ \E a \in 0..MaxAggBlocks * AggBlockSize,
          b \in 0..MaxAggBlocks * AggBlockSize : Iterated(a, b)

\* The aggregate buffers before anything is done to them, as the other
\* specifications keep them.
AggIdle ==
    /\ a_impl = "AggBuf" /\ a_mem = <<>>
    /\ a_inner = NoBlocks /\ a_data = <<>> /\ a_slices = {}
    /\ a_pc = "live" /\ a_underflow = FALSE
    /\ a_last = AggOp("new", <<>>, "ok")

FindIdle ==
    /\ f_hay = <<>> /\ f_needle = <<>> /\ f_i = 0 /\ f_offset = -1
    /\ f_curr = 0 /\ f_result = -2

LegacyIdle ==
    /\ lg_len = 0 /\ lg_read = 0 /\ lg_eof = FALSE /\ lg_buf = NoBlocks
    /\ lg_taken = FALSE /\ lg_stream = 0 /\ lg_pc = "idle" /\ lg_wanted = 0
    /\ lg_n = -1 /\ lg_log = <<>>

BufIdle == AggIdle /\ FindIdle /\ LegacyIdle

\* ======================================================================
\*  Specifications
\* ======================================================================
\* read_and_parse before it is called, as the other specifications keep it.
ParseIdle ==
    /\ p_pc = "loop" /\ p_buf = <<>> /\ p_stream = <<>> /\ p_cap = 0
    /\ p_max_len = 0 /\ p_checks = FALSE /\ p_read_limit = 0
    /\ p_verdict = "none" /\ p_n = -1 /\ p_reads = 0
    /\ p_underflow = FALSE /\ p_result = "none" /\ p_parsed = -1

\* An H1Body over an empty connection, as the other specifications keep it.
BodyIdle ==
    /\ BodyNew /\ b_kind = "ContentLength" /\ b_len = 0
    /\ b_src = <<>> /\ b_pad = 0 /\ BodyInput(<<>>, 0, 0)

\* write_h1_body before it is called, as the other specifications keep it.
WriteIdle ==
    /\ w_mode = "Empty" /\ w_cl = 0 /\ w_body = <<>> /\ w_out = <<>>
    /\ w_pc = "loop" /\ w_result = "none" /\ w_chunks = <<>> /\ w_ends = 0

\* One empty Piece, never split, as the other specifications keep it.
PieceIdle == ps_parts = <<Full(<<>>)>> /\ ps_last = NoSplit /\ ps_pc = "ok"

\* An empty PieceList, as the other specifications keep it.
ListIdle ==
    /\ pl_pieces = list_default
    /\ pl_ops = <<[op |-> "default", piece |-> Full(<<>>)]>>

\* serve before it is called, as the other specifications keep it.
ServeIdle ==
    /\ s_pc = "preface" /\ s_result = "none" /\ s_transport_w = <<>>
    /\ s_conf = DefaultMaxStreams
    /\ s_max_concurrent_streams = self_settings_max(s_conf)
    /\ s_client_buf = <<>> /\ s_transport_r = <<>> /\ s_input = <<>>
    /\ s_n = -1
    /\ LoopsNew

PipeSpecInit == PipeInit /\ ParseIdle /\ BodyIdle /\ WriteIdle /\ PieceIdle
    /\ ListIdle /\ ServeIdle /\ BufIdle

ParseSpecInit == ParseInit /\ PipeInit /\ BodyIdle /\ WriteIdle /\ PieceIdle
    /\ ListIdle /\ ServeIdle /\ BufIdle

BodySpecInit == BodyInit /\ PipeInit /\ ParseIdle /\ WriteIdle /\ PieceIdle
    /\ ListIdle /\ ServeIdle /\ BufIdle

WriteSpecInit == WriteInit /\ PipeInit /\ ParseIdle /\ BodyIdle /\ PieceIdle
    /\ ListIdle /\ ServeIdle /\ BufIdle

PieceSpecInit == PieceInit /\ PipeInit /\ ParseIdle /\ BodyIdle /\ WriteIdle
    /\ ListIdle /\ ServeIdle /\ BufIdle

ListSpecInit == ListInit /\ PipeInit /\ ParseIdle /\ BodyIdle /\ WriteIdle
    /\ PieceIdle /\ ServeIdle /\ BufIdle

ServeSpecInit == ServeInit /\ PipeInit /\ ParseIdle /\ BodyIdle /\ WriteIdle
    /\ PieceIdle /\ ListIdle /\ BufIdle

\* The pipe alone: a writer task and a reader task over one pipe.
PipeSpec == PipeSpecInit /\ [][PipeNext]_vars

\* read_and_parse alone: one call, from entry to return.
ParseSpec == ParseSpecInit /\ [][ParseNext]_vars

\* One H1Body read by next_chunk calls until into_inner.
BodySpec == BodySpecInit /\ [][BodyNext]_vars

\* One write_h1_body call, from entry to return.
WriteSpec == WriteSpecInit /\ [][WriteNext]_vars

\* One Piece split again and again.
PieceSpec == PieceSpecInit /\ [][PieceNext]_vars

\* One PieceList pushed to again and again.
ListSpec == ListSpecInit /\ [][ListNext]_vars

\* One h2::serve call over one connection, from entry to return.
ServeSpec == ServeSpecInit /\ [][ServeNext]_vars

\* One aggregate buffer of either implementation and the operations on it.
AggSpecInit == AggInit /\ PipeInit /\ ParseIdle /\ BodyIdle /\ WriteIdle
    /\ PieceIdle /\ ListIdle /\ ServeIdle /\ FindIdle /\ LegacyIdle

AggSpec == AggSpecInit /\ [][AggNext]_vars

\* One aggregate buffer and the reads of it through filled and AggSliceIter.
AggViewSpec == AggSpecInit /\ [][AggViewNext]_vars

\* One call of find_substring on a slice.
FindSpecInit == FindInit /\ PipeInit /\ ParseIdle /\ BodyIdle /\ WriteIdle
    /\ PieceIdle /\ ListIdle /\ ServeIdle /\ AggIdle /\ LegacyIdle

FindSpec == FindSpecInit /\ [][FindNext]_vars

\* One content-length body read through the AggBuf based H1Body.
LegacySpecInit == LegacyInit /\ PipeInit /\ ParseIdle /\ BodyIdle /\ WriteIdle
    /\ PieceIdle /\ ListIdle /\ ServeIdle /\ AggIdle /\ FindIdle

LegacySpec == LegacySpecInit /\ [][LegacyNext]_vars

\* ----------------------------------------------------- pipe: properties

\* The bytes of the Piece events still queued on the channel.
InFlight == Flatten([i \in 1..Len(chan) |-> chan[i].piece])

\* The bytes returned by the first k reads.
ReceivedUpTo(k) == Flatten([i \in 1..k |-> rlog[i].data])

\* read i returned Ok(0).
OkZero(i) == rlog[i].res = "Ok" /\ rlog[i].data = <<>>

\* Every byte of `data` is a byte of the piece of write k.
FromWrite(data, k) ==
    \A x \in 1..Len(data) : \E y \in 1..Len(wlog[k]) : wlog[k][y] = data[x]

\* C1: the bytes read are at every moment a prefix of the bytes written, in
\* write order; while the reader lives nothing is lost or reordered (bytes
\* read, then the pending remainder, then the queued piece make up exactly
\* the bytes written); and the reader is in Eof only once the writer is
\* dropped and every written byte has been returned.
C1_ReadsAreWritesInOrder ==
    /\ IsPrefix(received, written)
    /\ rxOpen => received \o remain \o InFlight = written
    /\ state = "Eof" => ~SenderAlive /\ received = written /\ remain = <<>>

\* C1 witness: two non-empty writes, the first read in two parts by
\* one-byte buffers, everything delivered, then EOF observed.
C1_Witness ==
    /\ Len(wlog) = 2 /\ Len(wlog[1]) = 2 /\ Len(wlog[2]) = 1
    /\ Len(rlog) = 4 /\ \A i \in 1..4 : rlog[i].cap = 1 /\ rlog[i].res = "Ok"
    /\ received = written /\ OkZero(4) /\ state = "Eof"

\* C2 (as stated): once reset() has returned, every read_owned called
\* afterwards fails with ConnectionReset.
C2_ResetFailsNextRead ==
    [][(wres = "ResetDone" /\ Len(rlog') = Len(rlog) + 1)
          => Last(rlog').res = "ConnectionReset"]_pipeVars

\* C2 (amended): once reset() has returned, a read_owned called afterwards
\* fails with ConnectionReset unless a remainder of a partially read piece is
\* pending, in which case it returns Ok with bytes of that remainder; and
\* once a read has failed with ConnectionReset the next one fails too.
C2_ResetFailsReadsAfterRemainder ==
    [][(Len(rlog') = Len(rlog) + 1) =>
          /\ (wres = "ResetDone" /\ remain = <<>>)
                => Last(rlog').res = "ConnectionReset"
          /\ (wres = "ResetDone" /\ remain # <<>>) =>
                /\ Last(rlog').res = "Ok"
                /\ Last(rlog').data \o remain' = remain
          /\ (rlog # <<>> /\ Last(rlog).res = "ConnectionReset")
                => Last(rlog').res = "ConnectionReset"]_pipeVars

\* C2 witness: reset() returned while a remainder was pending; the read
\* called after it returned the remainder, the next two failed.
C2_Witness ==
    /\ wres = "ResetDone" /\ Len(rlog) = 4
    /\ rlog[2].since /\ rlog[2].res = "Ok" /\ rlog[2].data # <<>>
    /\ rlog[3].res = "ConnectionReset" /\ rlog[4].res = "ConnectionReset"

\* C3: a read fails with ConnectionReset only after the reads before it have
\* returned every byte written, in order, and with no remainder left behind.
C3_ResetAfterAllBytes ==
    \A i \in 1..Len(rlog) :
        rlog[i].res = "ConnectionReset" =>
            /\ ReceivedUpTo(i - 1) = written
            /\ remain = <<>>

\* C3 witness: one two-byte write, then reset; one-byte buffers read the two
\* halves, the third read fails.
C3_Witness ==
    /\ Len(wlog) = 1 /\ Len(wlog[1]) = 2 /\ wres = "ResetDone"
    /\ Len(rlog) = 3 /\ rlog[1].data = <<1>> /\ rlog[2].data = <<2>>
    /\ rlog[3].res = "ConnectionReset"

\* C4: Reset and Eof are absorbing: a step never changes a non-Live state; a
\* read that completes in Reset fails with ConnectionReset, one that
\* completes in Eof returns Ok(0); and a read fails with ConnectionReset only
\* in state Reset.
C4_ResetEofAbsorbing ==
    [][/\ state # "Live" => state' = state
       /\ (state # "Live" /\ Len(rlog') = Len(rlog) + 1) =>
             /\ Last(rlog').data = <<>>
             /\ Last(rlog').res = IF state = "Reset" THEN "ConnectionReset" ELSE "Ok"
       /\ (Len(rlog') = Len(rlog) + 1 /\ Last(rlog').res = "ConnectionReset")
             => state' = "Reset"]_pipeVars

\* C4 witness: the reader is in Eof and the last two reads, made with
\* non-empty buffers, both returned Ok(0); earlier reads delivered bytes.
C4_Witness ==
    /\ state = "Eof" /\ Len(rlog) = 4 /\ received # <<>>
    /\ OkZero(3) /\ OkZero(4) /\ rlog[3].cap >= 1 /\ rlog[4].cap >= 1

\* C5 (as stated): write_owned of an empty piece sends no event, so no
\* empty Piece is ever on the channel and the reader's assertion never fails.
C5_EmptyWriteIsNoOp ==
    /\ \A i \in 1..Len(chan) : chan[i].kind = "Piece" => ~is_empty(chan[i].piece)
    /\ \A i \in 1..Len(rlog) : rlog[i].res # "Panic"

\* C6 (as stated): a read returns Ok(0) only when the writer has been dropped
\* and every written byte has been returned, whatever the buffer capacity.
C6_OkZeroOnlyAtEof ==
    \A i \in 1..Len(rlog) :
        OkZero(i) => ~SenderAlive /\ ReceivedUpTo(i) = written

\* C6 (amended): with a buffer of capacity >= 1 a read returns Ok(0) only
\* when the writer has been dropped and every written byte has been returned;
\* with a zero-capacity buffer a read that is not failing returns Ok(0) and
\* consumes nothing.
C6_OkZeroOnlyAtEofNonEmptyBuf ==
    \A i \in 1..Len(rlog) :
        /\ (OkZero(i) /\ rlog[i].cap >= 1) =>
              ~SenderAlive /\ ReceivedUpTo(i) = written
        /\ (rlog[i].res = "Ok" /\ rlog[i].cap = 0) => rlog[i].data = <<>>

\* C6 witness: a zero-capacity read returned Ok(0) while a remainder was
\* pending, the bytes were then read, and a later read with a non-empty
\* buffer returned Ok(0) at EOF.
C6_Witness ==
    /\ Len(rlog) = 4 /\ Len(wlog) = 1 /\ Len(wlog[1]) = 2
    /\ rlog[1].data = <<1>>
    /\ OkZero(2) /\ rlog[2].cap = 0
    /\ rlog[3].data = <<2>>
    /\ OkZero(4) /\ rlog[4].cap >= 1 /\ state = "Eof"

\* C7: the bytes one read returns all come from one write; and as long as
\* each read so far had a buffer at least as large as the piece of the write
\* with the same index, the k-th read that returns returns exactly the bytes
\* of the k-th write.
C7_FramingPreserved ==
    \A k \in 1..Len(rlog) :
        /\ rlog[k].data # <<>> => \E w \in 1..Len(wlog) : FromWrite(rlog[k].data, w)
        /\ (/\ k <= Len(wlog)
            /\ rlog[k].res = "Ok"
            /\ \A j \in 1..k : rlog[j].cap >= Len(wlog[j]))
              => rlog[k].data = wlog[k]

\* C7 witness: three writes of 2, 1 and 2 bytes read back as three separate
\* chunks by two-byte buffers, then EOF.
C7_Witness ==
    /\ Len(wlog) = 3 /\ Len(rlog) = 4
    /\ Len(wlog[1]) = 2 /\ Len(wlog[2]) = 1 /\ Len(wlog[3]) = 2
    /\ \A k \in 1..3 : rlog[k].data = wlog[k] /\ rlog[k].cap = 2
    /\ OkZero(4) /\ state = "Eof"

\* ------------------------------------------------ read_and_parse: properties

ParseErrors ==
    {"BufferLimitReachedWhileParsing", "UnexpectedEof", "ParsingError",
     "ReadError", "ReserveError"}

\* C8 (as stated): the call ends by returning exactly one of Some, None or
\* an error, never in another way; and it issues at most max_len reads,
\* because every read but the last adds at least one byte toward max_len.
C8_EndsWithOneResult ==
    /\ p_pc \in {"loop", "reading", "returned"}
    /\ p_pc = "returned" <=> p_result \in {"Some", "None"} \cup ParseErrors
    /\ p_pc # "returned" <=> p_result = "none"
    /\ p_reads <= p_max_len

\* C9 (as stated): when the parser answers Incomplete with buf.len() >=
\* max_len the call has returned BufferLimitReachedWhileParsing, no read is
\* ever pending with buf.len() >= max_len, and max_len - buf.len() is never
\* computed with buf.len() > max_len.
C9_LimitWithoutUnderflow ==
    /\ (p_verdict = "Incomplete" /\ roll_len(p_buf) >= p_max_len) =>
          p_pc = "returned" /\ p_result = "BufferLimitReachedWhileParsing"
    /\ p_pc = "reading" => roll_len(p_buf) < p_max_len
    /\ ~p_underflow

\* C10: a read of 0 bytes ends the call, with None if the buffer holds no
\* filled byte and with the unexpected-EOF error otherwise; None is returned
\* only after a read of 0 bytes into a buffer with no filled byte, and the
\* unexpected-EOF error only after a read of 0 bytes with bytes still filled.
C10_EofNoneIffEmpty ==
    /\ p_n = 0 =>
          /\ p_pc = "returned"
          /\ p_result = "None" <=> p_buf = <<>>
          /\ p_result = "UnexpectedEof" <=> p_buf # <<>>
    /\ p_result = "None" => p_n = 0 /\ p_buf = <<>>
    /\ p_result = "UnexpectedEof" => p_n = 0 /\ p_buf # <<>>

\* C10 witness: the buffer was empty on entry, one refill brought bytes, the
\* parser wanted more and the second read hit EOF: unexpected EOF.
C10_Witness ==
    /\ p_result = "UnexpectedEof" /\ p_n = 0 /\ p_reads = 2
    /\ roll_len(p_buf) >= 1 /\ p_stream = <<>>

\* C11: when the call returns Some, the filled region of the returned buffer
\* is exactly rest, the bytes past the ones the parser consumed, in order,
\* and the transport continues right after them, so no byte read past the
\* parsed message is lost or duplicated; until then the buffer holds every
\* byte received so far, in order; and when the parser succeeds on the
\* buffer as it was passed in, no read has been issued.
C11_SomeKeepsRest ==
    /\ p_result = "Some" =>
          /\ p_parsed >= 0
          /\ p_buf = StreamBytes(p_parsed, roll_len(p_buf))
          /\ p_stream = StreamBytes(p_parsed + roll_len(p_buf), Len(p_stream))
          /\ p_n = -1 => p_reads = 0
    /\ p_result # "Some" =>
          /\ p_parsed = -1
          /\ p_buf = StreamBytes(0, roll_len(p_buf))
          /\ p_stream = StreamBytes(roll_len(p_buf), Len(p_stream))

\* C11 witness: a buffer entered with one byte was refilled with two more,
\* the parser consumed two bytes and the third is what the buffer holds.
C11_Witness ==
    /\ p_result = "Some" /\ p_reads = 1 /\ p_n = 2 /\ p_parsed = 2
    /\ p_buf = <<3>>

\* ------------------------------------------------------- H1Body: properties

\* The bytes of the chunks the first k next_chunk calls returned.
DeliveredUpTo(k) == Flatten([i \in 1..k |-> b_log[i].data])
Delivered == DeliveredUpTo(Len(b_log))

\* Call i failed.
BodyFailed(i) == b_log[i].res \notin {"Chunk", "Done"}

\* C12 (as stated): with ContentLength(len), read <= len always; a call
\* returns Done only when the chunks returned before it total len bytes; the
\* chunks are the first bytes of the body, in order, never more than len; and
\* the bytes not yet delivered stay in the buffer or on the transport.
C12_ContentLengthExact ==
    b_kind = "ContentLength" =>
        /\ b_read <= b_len
        /\ \A i \in 1..Len(b_log) :
              b_log[i].res = "Done" => Len(DeliveredUpTo(i)) = b_len
        /\ Len(Delivered) = b_read
        /\ IsPrefix(Delivered, b_wire)
        /\ b_slot => Delivered \o b_buf \o b_stream = b_wire

\* The input is a chunked body of well-formed chunks, none empty, then the
\* zero chunk and its CRLF, all of it delivered before the peer closes.
WellFormedChunks ==
    /\ b_kind = "Chunked"
    /\ \A i \in 1..Len(b_src) : b_src[i] # <<>>
    /\ IsPrefix(chunked_wire(b_src, b_pad), b_wire)

\* No read and no reserve has failed.
NoIoFailure == b_n # -2 /\ \A i \in 1..Len(b_log) : b_log[i].n # -2

\* What the connection holds after the chunked body.
AfterBody ==
    SubSeq(b_wire, Len(chunked_wire(b_src, b_pad)) + 1, Len(b_wire))

\* The decoder turns the wire into the payloads: no call fails, the chunks
\* returned are non-empty and make up the payloads in order, Done comes only
\* after all of them, and once the decoder is Done exactly the body's bytes
\* have left the connection.
DecodesPayloads ==
    /\ b_pc # "panicked"
    /\ \A i \in 1..Len(b_log) :
          /\ ~BodyFailed(i)
          /\ b_log[i].res = "Chunk" => b_log[i].data # <<>>
          /\ b_log[i].res = "Done" => DeliveredUpTo(i) = Flatten(b_src)
    /\ IsPrefix(Delivered, Flatten(b_src))
    /\ b_state = "Done" =>
          Delivered = Flatten(b_src) /\ b_buf \o b_stream = AfterBody

WrittenByWriteH1Body ==
    /\ b_kind = "Chunked" /\ b_pad = 0
    /\ IsPrefix(chunked_wire(b_src, 0), b_wire)

\* C14 (as stated): whatever the lengths of the chunks write_h1_body wrote in
\* Chunked mode, the decoder returns their bytes in order and reports Done
\* exactly where the writer finished, no earlier.
C14_ChunkedRoundTrip ==
    (WrittenByWriteH1Body /\ NoIoFailure) => DecodesPayloads

\* ------------------------------------------------ write_h1_body: properties

\* The lowercase hexadecimal numeral of n < 256 in ASCII, written out.
LowerHexOf(n) ==
    LET digit == [d \in 0..15 |->
            CASE d = 0 -> 48 [] d = 1 -> 49 [] d = 2 -> 50 [] d = 3 -> 51
              [] d = 4 -> 52 [] d = 5 -> 53 [] d = 6 -> 54 [] d = 7 -> 55
              [] d = 8 -> 56 [] d = 9 -> 57 [] d = 10 -> 97 [] d = 11 -> 98
              [] d = 12 -> 99 [] d = 13 -> 100 [] d = 14 -> 101
              [] OTHER -> 102]
    IN  IF n < 16 THEN <<digit[n]>> ELSE <<digit[n \div 16], digit[n % 16]>>

\* The wire format of the chunks cs in chunked transfer encoding.
ExpectedChunked(cs) ==
    Flatten([i \in 1..Len(cs) |->
               LowerHexOf(Len(cs[i])) \o <<13, 10>> \o cs[i] \o <<13, 10>>])

\* C15: in Chunked mode the bytes written are, for each chunk the body
\* returned and in their order, the lowercase hex of its length, CRLF, its
\* bytes, CRLF, and after them `0 CRLF CRLF` once the call has returned Ok
\* (when a write fails, the chunks before the failing write); the body end
\* is written at most once, exactly when the call returns Ok, which it does
\* only after the body's last chunk; in ContentLength mode the bytes written
\* are the chunks' bytes and in Empty mode none, so Done adds nothing there.
C15_ChunkedWireFormat ==
    /\ w_ends <= 1 /\ (w_result = "Ok" <=> w_ends = 1)
    /\ w_result = "Ok" => w_body = <<>> /\ w_pc = "returned"
    /\ w_mode = "Chunked" =>
          IF w_result = "WriteError"
          THEN \E k \in {Len(w_chunks) - 1, Len(w_chunks)} :
                  k >= 0 /\ w_out = ExpectedChunked(SubSeq(w_chunks, 1, k))
          ELSE w_out = ExpectedChunked(w_chunks)
                         \o (IF w_ends = 1 THEN <<48, 13, 10, 13, 10>> ELSE <<>>)
    /\ (w_mode = "ContentLength" /\ w_result # "WriteError")
          => w_out = Flatten(w_chunks)
    /\ w_mode = "Empty" => w_out = <<>>

\* C15 witness: a chunked body of a 16-byte and an 11-byte chunk was written
\* to its end: size lines "10" and "b".
C15_Witness ==
    /\ w_mode = "Chunked" /\ w_result = "Ok" /\ Len(w_chunks) = 2
    /\ Len(w_chunks[1]) = 16 /\ Len(w_chunks[2]) = 11
    /\ SubSeq(w_out, 1, 4) = <<49, 48, 13, 10>>
    /\ SubSeq(w_out, 23, 25) = <<98, 13, 10>>

\* C16 (as stated): in ContentLength(n) mode a call that returns Ok has
\* written exactly n body bytes.
C16_WritesAnnouncedLength ==
    (w_mode = "ContentLength" /\ w_result = "Ok") => Len(w_out) = w_cl

\* C17: in Empty mode a chunk returned by the body, the first included, ends
\* the call with CalledWriteBodyChunkWhenNoBodyWasExpected, and no byte is
\* ever written; that error is returned in no other mode.
C17_EmptyModeRejectsChunks ==
    /\ w_mode = "Empty" =>
          /\ w_out = <<>>
          /\ w_chunks # <<>> =>
                /\ w_result = "CalledWriteBodyChunkWhenNoBodyWasExpected"
                /\ Len(w_chunks) = 1
    /\ w_result = "CalledWriteBodyChunkWhenNoBodyWasExpected"
          => w_mode = "Empty" /\ w_chunks # <<>>

\* C17 witness: in Empty mode the body returned a chunk of 3 bytes first.
C17_Witness ==
    /\ w_mode = "Empty" /\ Len(w_chunks) = 1 /\ Len(w_chunks[1]) = 3
    /\ w_result = "CalledWriteBodyChunkWhenNoBodyWasExpected" /\ w_out = <<>>

\* C18: with ContentLength(len), a call whose read returned 0 bytes (the
\* read is made only with the buffer empty and fewer than len bytes
\* delivered) fails with ClosedWhileReadingContentLength, which is returned
\* in no other case; no call returns an empty chunk; and a read is pending
\* only with the buffer empty and fewer than len bytes delivered.
C18_EarlyCloseIsAnError ==
    b_kind = "ContentLength" =>
        /\ \A i \in 1..Len(b_log) :
              /\ b_log[i].n = 0 =>
                    /\ b_log[i].res = "ClosedWhileReadingContentLength"
                    /\ Len(DeliveredUpTo(i - 1)) < b_len
              /\ b_log[i].res = "ClosedWhileReadingContentLength"
                    => b_log[i].n = 0
              /\ b_log[i].res = "Chunk" => b_log[i].data # <<>>
        /\ b_pc = "rd_cl" => b_buf = <<>> /\ b_read < b_len

\* C18 witness: one of two announced bytes was delivered, then the peer
\* closed: the second call read 0 bytes and failed.
C18_Witness ==
    /\ b_kind = "ContentLength" /\ b_len = 2 /\ Len(b_log) = 2
    /\ b_log[1].res = "Chunk" /\ Len(b_log[1].data) = 1
    /\ b_log[2].n = 0 /\ b_log[2].res = "ClosedWhileReadingContentLength"

\* The body has been read to its end: with ContentLength(len), len bytes
\* were delivered and no call failed; with Chunked, a call that no failed
\* call preceded returned Done.
FullyRead ==
    IF b_kind = "ContentLength"
    THEN Len(Delivered) = b_len /\ \A i \in 1..Len(b_log) : ~BodyFailed(i)
    ELSE \E i \in 1..Len(b_log) :
            b_log[i].res = "Done" /\ \A j \in 1..i : ~BodyFailed(j)

\* How many bytes have left the connection for good.
Consumed == Len(b_wire) - Len(b_buf) - Len(b_stream)

\* C19: into_inner returns Some exactly when the body has been read to its
\* end, and None after any failed call; when it returns Some the buffer and
\* the transport hold exactly what follows the body: with ContentLength(len)
\* the bytes past the first len, with Chunked the bytes past a zero chunk's
\* final CRLF.
C19_IntoInnerOnlyWhenDone ==
    b_inner # "none" =>
        /\ b_inner = "Some" <=> FullyRead
        /\ (\E i \in 1..Len(b_log) : BodyFailed(i)) => b_inner = "None"
        /\ b_inner = "Some" =>
              IF b_kind = "ContentLength"
              THEN b_buf \o b_stream = SubSeq(b_wire, b_len + 1, Len(b_wire))
              ELSE /\ Consumed >= 5
                   /\ SubSeq(b_wire, Consumed - 4, Consumed)
                         = <<48, 13, 10, 13, 10>>

\* C19 witness: a chunked body of two payload bytes was read to Done and
\* into_inner returned Some, the next request's byte still to come.
C19_Witness ==
    /\ b_kind = "Chunked" /\ b_inner = "Some" /\ Len(Delivered) = 2
    /\ b_stream # <<>>

\* ------------------------------------------------------- Piece: properties

\* The first byte of the core a piece shows, as an offset into the core.
Offset(p) == IF p.kind = "Slice" THEN p.start ELSE 0

\* C20: for the last split p.split_at(k), 0 <= k <= p.len(), of a Full piece
\* or of a part of an earlier split: a.len() = k, b.len() = p.len() - k, a's
\* bytes then b's are p's bytes, and both view p's core, a from p's offset
\* and b from k bytes further; and after any number of splits the parts, in
\* order, still show the core's bytes, each part starting where the one
\* before it ends.
C20_SplitPreservesBytes ==
    /\ ps_last.middle >= 0 =>
          LET p == ps_last.p
              k == ps_last.middle
              a == ps_last.a
              b == ps_last.b
          IN  /\ piece_len(a) = k
              /\ piece_len(b) = piece_len(p) - k
              /\ as_ref(a) \o as_ref(b) = as_ref(p)
              /\ a.core = p.core /\ b.core = p.core
              /\ Offset(a) = Offset(p) /\ Offset(b) = Offset(p) + k
              /\ \A j \in 1..piece_len(a) : as_ref(a)[j] = p.core[Offset(p) + j]
              /\ \A j \in 1..piece_len(b) :
                    as_ref(b)[j] = p.core[Offset(p) + k + j]
    /\ Flatten([i \in 1..Len(ps_parts) |-> as_ref(ps_parts[i])])
          = ps_parts[1].core
    /\ \A i \in 1..(Len(ps_parts) - 1) :
          /\ ps_parts[i + 1].core = ps_parts[i].core
          /\ Offset(ps_parts[i + 1]) = Offset(ps_parts[i]) + piece_len(ps_parts[i])

\* C20 witness: a part that begins inside the core was split again in its
\* middle, the original being in three parts by now.
C20_Witness ==
    /\ ps_last.p.kind = "Slice" /\ ps_last.p.start > 0
    /\ ps_last.middle > 0 /\ ps_last.middle < piece_len(ps_last.p)
    /\ Len(ps_parts) = 3

\* --------------------------------------------------- PieceList: properties

\* The calls made so far, the constructor left out.
Pushes == Tail(pl_ops)

\* The pieces handed to the calls of `ops` named in `names` that were not
\* empty, in call order.
NonEmptyOf(ops, names) ==
    SelectSeq(ops, LAMBDA o : o.op \in names /\ as_ref(o.piece) # <<>>)

Reverse(s) == [i \in 1..Len(s) |-> s[Len(s) + 1 - i]]

\* The pieces a list holds by its history: those pushed at the front, the
\* last first, then the constructor's, then those pushed at the back.
HeldByHistory ==
    LET front == NonEmptyOf(Pushes, {"push_front", "preceded_by"})
        back == NonEmptyOf(Pushes, {"push_back", "followed_by"})
        first == IF pl_ops[1].op = "single" THEN <<pl_ops[1]>> ELSE <<>>
        held == Reverse(front) \o first \o back
    IN  [i \in 1..Len(held) |-> held[i].piece]

\* C21: a push of a zero-length Piece leaves the list as it is and a push of
\* a non-empty one adds it at its end of the list: the list holds, front to
\* back, the non-empty pieces pushed at the front (last first), the
\* constructor's piece, and the non-empty pieces pushed at the back;
\* num_pieces() counts them and len() is the sum of their lengths.
C21_PushSkipsEmptyPieces ==
    /\ pl_pieces = HeldByHistory
    /\ num_pieces(pl_pieces) = Len(HeldByHistory)
    /\ list_len(pl_pieces)
          = Len(Flatten([i \in 1..Len(HeldByHistory) |->
                           as_ref(HeldByHistory[i])]))

\* C21 witness: an empty Piece was pushed at the front and another at the
\* back, one of them through followed_by or preceded_by, and the list holds
\* two pieces.
C21_Witness ==
    /\ \E i, j \in 1..Len(Pushes) :
          /\ Pushes[i].op \in {"push_front", "preceded_by"}
          /\ Pushes[j].op \in {"push_back", "followed_by"}
          /\ {Pushes[i].op, Pushes[j].op} \cap {"followed_by", "preceded_by"} # {}
          /\ as_ref(Pushes[i].piece) = <<>> /\ as_ref(Pushes[j].piece) = <<>>
    /\ num_pieces(pl_pieces) = 2 /\ list_len(pl_pieces) > 2

\* ------------------------------------------------------ serve: properties

\* The frames written, as the kinds of their parts.
WrittenKinds == [i \in 1..Len(s_transport_w) |-> s_transport_w[i].kind]

\* The part records of one whole frame.
WholeFrame(ev, kind, stream) ==
    [part \in 1..NumParts(kind) |-> FramePart(ev, kind, stream, part)]

\* The client has sent its initial SETTINGS and no frame else.
OnlyInitialSettings ==
    s_frames = <<ClientFrame("Settings", 0, FALSE)>>

\* The write loop has written the frame of every event sent.
AllWritten == s_ev = <<>> /\ s_cur = NoEv /\ Len(s_recv) = Len(s_sent)

\* C22: whatever has been written begins with serve's own SETTINGS frame,
\* which is whole before the loops exist and is the only SETTINGS frame
\* written; and once the client's initial SETTINGS, its only frame so far,
\* has been read, what is written is a prefix of that SETTINGS frame
\* followed by one SETTINGS-ACK, and all of it when the write loop has
\* written every event.
C22_SettingsThenAck ==
    LET settings == WholeFrame(0, "Settings", 0)
        ack == WholeFrame(1, "SettingsAck", 0)
    IN  /\ IsPrefix(s_transport_w, settings) \/ IsPrefix(settings, s_transport_w)
        /\ \A i \in 1..Len(s_transport_w) :
              s_transport_w[i].kind = "Settings" <=> i <= Len(settings)
        /\ s_read_task # "none" \/ s_write_task # "none"
              => IsPrefix(settings, s_transport_w)
        /\ OnlyInitialSettings =>
              /\ IsPrefix(s_transport_w, settings \o ack)
              /\ AllWritten => s_transport_w = settings \o ack

\* C22 witness: the preface and the client's SETTINGS were read and the
\* server's SETTINGS and its SETTINGS-ACK are written.
C22_Witness ==
    /\ OnlyInitialSettings /\ AllWritten
    /\ WrittenKinds = <<"Settings", "Settings", "SettingsAck">>

\* The client delivers no byte at all, client_buf being empty at entry.
NoByteSent == s_input = <<>>

\* C23: when the client sends no byte, nothing is ever written and the
\* loops are never made; and once the read has reported the end of the
\* stream, serve has returned Ok(()).
C23_CleanCloseBeforePreface ==
    NoByteSent =>
        /\ s_transport_w = <<>>
        /\ s_read_task = "none" /\ s_write_task = "none"
        /\ s_ev = <<>> /\ s_sent = <<>>
        /\ s_n = 0 => s_pc = "returned" /\ s_result = "Ok"

\* C23 witness: the client closed before its first byte and serve returned.
C23_Witness ==
    NoByteSent /\ s_n = 0 /\ s_pc = "returned" /\ s_client_buf = <<>>

\* A loop has ended with an error.
Failed(task) == task \in {"closed", "failed"}

\* The loops were made and serve has returned.
JoinEnded == s_pc = "returned" /\ s_read_task # "none"

\* C24: serve returns from the join Ok(()) exactly when the read loop ended
\* with ConnectionClosed or both loops ended without error, and an error
\* when the read loop failed otherwise (the read loop's) or the write loop
\* failed, ConnectionClosed included (the write loop's); at most one loop
\* has failed, no loop is left running once one has, and serve stays in the
\* join while none has failed and one still runs.
C24_LoopJoin ==
    /\ ~(Failed(s_read_task) /\ Failed(s_write_task))
    /\ Failed(s_read_task) \/ Failed(s_write_task) =>
          /\ JoinEnded
          /\ s_read_task \notin {"running"}
          /\ s_write_task \notin {"running", "writing"}
    /\ s_read_task = "dropped" => Failed(s_write_task)
    /\ s_write_task = "dropped" => Failed(s_read_task)
    /\ JoinEnded =>
          /\ s_result = "Ok" <=>
                \/ s_read_task = "closed"
                \/ s_read_task = "ok" /\ s_write_task = "ok"
          /\ s_read_task = "failed" => s_result = "LoopError::Read"
          /\ Failed(s_write_task) => s_result = "LoopError::Write"
    /\ s_pc = "joined" =>
          /\ s_read_task \in {"running", "ok"}
          /\ s_write_task \in {"running", "writing", "ok"}
          /\ ~(s_read_task = "ok" /\ s_write_task = "ok")

\* C24 witness: the write loop raised ConnectionClosed while the read loop
\* was running: the read loop was dropped and serve returned the error.
C24_Witness ==
    /\ JoinEnded /\ s_write_task = "closed" /\ s_read_task = "dropped"
    /\ s_result = "LoopError::Write" /\ s_frames # <<>>

\* The read loop has just read a HEADERS frame that would open a stream
\* while the open streams number max_concurrent_streams.
HeadersAtLimit ==
    /\ Len(s_frames') = Len(s_frames) + 1
    /\ Last(s_frames').kind = "Headers"
    /\ OpenCount(s_streams) = s_conf

\* C25: the limit in force is conf.max_streams and the open streams never
\* number more; a HEADERS frame read at the limit puts one RST_STREAM with
\* REFUSED_STREAM for its stream id on the event channel and leaves every
\* stream's state, the refused stream's too, as it was.
C25_ConcurrencyLimit ==
    /\ [](s_max_concurrent_streams = s_conf /\ OpenCount(s_streams) <= s_conf)
    /\ [][HeadersAtLimit =>
            /\ s_streams' = s_streams
            /\ s_handlers' = s_handlers
            /\ s_sent' = Append(s_sent,
                  [id |-> Len(s_sent) + 1, kind |-> "RstStream",
                   stream |-> Last(s_frames').stream, code |-> REFUSED_STREAM])
            /\ s_ev' = Append(s_ev, Last(s_sent'))]_vars

\* C25 witness: with a stream open at the limit a second HEADERS frame was
\* read, and the RST_STREAM for it is written while the first stream is
\* still open.
C25_Witness ==
    /\ OpenCount(s_streams) = s_conf
    /\ Len(s_frames) = 2 /\ s_frames[2].kind = "Headers"
    /\ s_streams[s_frames[2].stream] = "Idle"
    /\ s_streams[s_frames[1].stream] \in Active
    /\ \E i \in 1..Len(s_transport_w) :
          /\ s_transport_w[i].kind = "RstStream"
          /\ s_transport_w[i].stream = s_frames[2].stream
          /\ s_transport_w[i].part = NumParts("RstStream")

\* What the write loop has written: transport_w past serve's own frame.
LoopWritten ==
    SubSeq(s_transport_w, NumParts("Settings") + 1, Len(s_transport_w))

\* The frames of the events e[1..n], whole and in that order.
FramesOf(e, n) ==
    Flatten([i \in 1..n |->
               WholeFrame(e[i].id, frame_kind(e[i].kind), e[i].stream)])

\* C26: the events are received in the order they were sent, and what the
\* write loop has written is the frames of the events received, whole and
\* in the order received, the last of them possibly still being written:
\* no part of a frame lies between the parts of another.
C26_WritesInEventOrder ==
    /\ IsPrefix(s_recv, s_sent)
    /\ s_recv \o s_ev = s_sent
    /\ s_read_task # "none" =>
          /\ IsPrefix(LoopWritten, FramesOf(s_recv, Len(s_recv)))
          /\ s_recv # <<>> =>
                IsPrefix(FramesOf(s_recv, Len(s_recv) - 1), LoopWritten)
          /\ s_write_task = "running" =>
                LoopWritten = FramesOf(s_recv, Len(s_recv))

\* C26 witness: the read loop and a handler have sent events for two
\* streams, the write loop has written the first two frames whole and is
\* inside a frame of two parts.
C26_Witness ==
    /\ Len(s_recv) >= 3 /\ s_write_task = "writing" /\ s_cur.parts = 1
    /\ \E i, j \in 1..Len(s_recv) : s_recv[i].stream # s_recv[j].stream
    /\ \E i \in 1..Len(s_recv) : s_recv[i].kind = "Headers"
    /\ s_ev # <<>>

\* ------------------------------------------- pipe: properties (backpressure)

\* Bytes the reader has taken off the channel: those it returned and those
\* it holds in remain.
TakenBytes == Len(received) + Len(remain)

\* Events the reader has received, by what the reader shows of them: the
\* non-empty pieces whose first byte it has taken, the empty piece its
\* assertion failed on, and the Reset that set its state.
ReceivedEvents ==
    Cardinality({k \in 1..Len(wlog) :
                   wlog[k] # <<>> /\ wlog[k][1] <= TakenBytes})
      + Cardinality({i \in 1..Len(rlog) : rlog[i].res = "Panic"})
      + (IF state = "Reset" THEN 1 ELSE 0)

\* Calls of the writer that have returned with their event sent: the
\* write_owned calls that returned Ok, and reset.
CompletedSends == Len(wlog) + (IF wres = "ResetDone" THEN 1 ELSE 0)

\* C27: at most one event is on the channel, the writer's calls that have
\* returned with their event sent number at most one more than the events
\* the reader has received, and a third write has returned only after the
\* reader took the second piece.
C27_Backpressure ==
    /\ Len(chan) <= 1
    /\ CompletedSends <= ReceivedEvents + 1
    /\ Len(wlog) >= 3 =>
          /\ ReceivedEvents >= 2
          /\ TakenBytes >= Len(wlog[1]) + Len(wlog[2])

\* C27 witness: the third write has returned, its piece still on the
\* channel, the reader having received the first two.
C27_Witness ==
    /\ Len(wlog) = 3 /\ ReceivedEvents = 2 /\ Len(chan) = 1
    /\ rpc = "live" /\ wlog[3] # <<>>


\* C28 (as stated): once a next_chunk call has returned an error, every
\* later call returns CalledNextChunkAfterError; it returns neither Done nor
\* a Chunk.
C28_ErrorsAreSticky ==
    \A i \in 1..Len(b_log) : \A j \in (i + 1)..Len(b_log) :
        BodyFailed(i) => b_log[j].res = "CalledNextChunkAfterError"


\* A next_chunk call returns in this step.
Returns == Len(b_log') = Len(b_log) + 1

\* The record of the call that returns in this step.
Returned == b_log'[Len(b_log')]

\* C29: a chunked body's call returns a Chunk only in ReadingChunk, the chunk
\* is 1 to remain bytes long and remain goes down by its length; ReadingChunk
\* is left only for ReadingChunkHeader, with remain = 0 and a CRLF at the head
\* of the buffer, which is consumed; Done is entered only from the final-CRLF
\* step with a CRLF at the head of the buffer, and whenever the decoder is
\* Done the last bytes consumed are a size line ending in 0, CRLF, CRLF.
C29_ChunkAccounting ==
    /\ [][b_kind = "Chunked" =>
            /\ (Returns /\ Returned.res = "Chunk") =>
                  /\ b_state = "ReadingChunk" /\ b_state' = "ReadingChunk"
                  /\ Len(Returned.data) \in 1..b_remain
                  /\ b_remain' = b_remain - Len(Returned.data)
            /\ (b_state = "ReadingChunk" /\ b_state' # "ReadingChunk") =>
                  /\ b_state' = "ReadingChunkHeader"
                  /\ b_remain = 0
                  /\ IsPrefix(CRLF, b_buf)
                  /\ b_buf' = SubSeq(b_buf, 3, Len(b_buf))
            /\ (b_state # "Done" /\ b_state' = "Done") =>
                  /\ b_state = "ReadingChunkHeader"
                  /\ IsPrefix(CRLF, b_buf)
                  /\ Returns /\ Returned.res = "Done"]_vars
    /\ [](b_kind = "Chunked" /\ b_state = "Done" =>
            /\ Consumed >= 5
            /\ SubSeq(b_wire, Consumed - 4, Consumed)
                  = <<LowerHexDigits[1]>> \o CRLF \o CRLF)

\* C29 witness: a chunk of two bytes was returned one byte per call, its
\* CRLF was parsed, and the zero chunk and the final CRLF led to Done.
C29_Witness ==
    /\ b_kind = "Chunked" /\ b_state = "Done" /\ Len(b_src) = 1
    /\ Len(b_log) = 3
    /\ b_log[1].res = "Chunk" /\ Len(b_log[1].data) = 1
    /\ b_log[2].res = "Chunk" /\ Len(b_log[2].data) = 1
    /\ b_log[3].res = "Done"


\* A next_chunk call of a chunked body is at the head of its loop in decoder
\* state st: it has just been made, or has come round again.
AtHead(st) ==
    /\ b_kind = "Chunked" /\ b_state = st
    /\ b_pc = "head" \/ (b_pc = "idle" /\ b_slot /\ b_log' # b_log)

\* The call returns `err` in this step.
Fails(err) == Returns /\ Returned.res = err

\* A read made at `pc` with the buffer empty finds the peer gone.
CleanEof(pc) ==
    b_kind = "Chunked" /\ b_pc = pc /\ b_buf = <<>> /\ b_n' = 0

\* The errors of the chunked reader, by the place the call is at: what a
\* clean EOF and a malformed line lead to.
ErrorsByState ==
    /\ CleanEof("rd_size") => Fails("ClosedWhileReadingChunkSize")
    /\ CleanEof("rd_data") /\ b_remain > 0
          => Fails("ClosedWhileReadingChunkData")
    /\ CleanEof("rd_term") \/ CleanEof("rd_final")
          => Fails("ClosedWhileReadingChunkTerminator")
    /\ AtHead("ReadingChunkHeader") /\ chunk_size(b_buf).verdict = "Error"
          => Fails("InvalidChunkSize")
    /\ \/ AtHead("ReadingChunk") /\ b_remain = 0
       \/ b_kind = "Chunked" /\ b_pc = "final"
          => (crlf(b_buf).verdict = "Error"
                 => Fails("InvalidChunkTerminator"))

\* The first size line of the input is more than 16 bytes long.
OverLongSizeLine ==
    b_kind = "Chunked" /\ b_pad + 1 + Len(CRLF) > ChunkSizeMaxLen

\* C30 (as stated): a clean EOF yields ClosedWhileReadingChunkSize, -Data or
\* -Terminator by the place it is met at, a malformed size line yields
\* InvalidChunkSize and a malformed terminator InvalidChunkTerminator; and a
\* size line of more than 16 bytes yields InvalidChunkSize.
C30_ErrorsByState ==
    /\ [][ErrorsByState]_vars
    /\ [](OverLongSizeLine /\ Len(b_log) >= 1
             => b_log[1].res = "InvalidChunkSize")


\* A call has returned Done with the body read to its end: ContentLength
\* with read = len, Chunked in state Done.
DoneReturned ==
    /\ eof
    /\ \E i \in 1..Len(b_log) : b_log[i].res = "Done"

\* C31: once next_chunk has returned Done with the body read to its end,
\* every later call returns Done, no read is issued, and the buffer, the
\* transport and the decoder's state stay as they are.
C31_DoneIsAbsorbing ==
    [][DoneReturned =>
          /\ Returns => Returned.res = "Done" /\ Returned.n = -1
          /\ b_pc' \in {"idle", "consumed"}
          /\ UNCHANGED <<b_buf, b_slot, b_stream, b_state, b_remain, b_read,
                         b_len, b_kind>>]_vars

\* C31 witness: a chunked body was read to Done with bytes left in the
\* buffer, and next_chunk was called twice more.
C31_Witness ==
    /\ b_kind = "Chunked" /\ DoneReturned /\ b_buf # <<>>
    /\ Len(b_log) >= 3
    /\ \A i \in (Len(b_log) - 2)..Len(b_log) : b_log[i].res = "Done"


\* C32: a buffer of at most max_len bytes stays so through every step of
\* read_and_parse: the read issued then is asked for max_len - buf.len()
\* bytes, the refill appends no more than that, and the buffer holds at most
\* max_len bytes afterwards.
C32_ReadBound ==
    [][roll_len(p_buf) <= p_max_len =>
          /\ roll_len(p_buf') <= p_max_len
          /\ (p_pc = "loop" /\ p_pc' = "reading") =>
                p_read_limit' = p_max_len - roll_len(p_buf)
          /\ (p_pc = "reading" /\ p_pc' = "loop") =>
                /\ roll_len(p_buf') - roll_len(p_buf) \in 1..p_read_limit
                /\ p_read_limit = p_max_len - roll_len(p_buf)]_vars

\* C32 witness: two refills have filled the buffer up to max_len exactly.
C32_Witness ==
    /\ p_reads = 2 /\ p_n > 0 /\ p_pc = "loop" /\ ~p_underflow
    /\ p_max_len = MaxMaxLen /\ roll_len(p_buf) = p_max_len


\* The bytes serve has taken from the client so far.
PrefaceReceived ==
    SubSeq(s_input, 1, Len(s_input) - Len(s_transport_r))

\* The client's bytes are not the preface: a part of it, at least one byte,
\* before the client closes, or a byte of it is wrong.
BrokenPreface == s_input # <<>> /\ s_input # PREFACE

\* C33: a byte is written, and the loops are made, only after the whole
\* preface literal has been received; with a preface cut short after its
\* first byte or differing from the literal, serve writes nothing, makes no
\* loop, and when it returns it returns an error: the unexpected-EOF error
\* once the end of the stream was read, the parsing error once the differing
\* byte was received and no read failed.
C33_PrefaceGate ==
    /\ (s_transport_w # <<>> \/ s_read_task # "none" \/ s_pc = "settings")
          => IsPrefix(PREFACE, PrefaceReceived)
    /\ BrokenPreface =>
          /\ s_transport_w = <<>> /\ s_sent = <<>>
          /\ s_read_task = "none" /\ s_write_task = "none"
          /\ s_pc \in {"preface", "rd_preface", "returned"}
          /\ s_pc = "returned" =>
                /\ s_result \in {"UnexpectedEof", "ParsingError", "IoError"}
                /\ s_n = 0 => s_result = "UnexpectedEof"
                /\ s_result = "UnexpectedEof" => IsPrefix(s_input, PREFACE)
                /\ s_result = "ParsingError" => ~IsPrefix(s_input, PREFACE)

\* C33 witness: every byte but the last of the preface came, the last one
\* wrong, and serve returned the parsing error.
C33_Witness ==
    /\ s_input = BadPreface(Len(PREFACE)) /\ s_transport_r = <<>>
    /\ s_pc = "returned" /\ s_result = "ParsingError" /\ s_n = 1


\* --------------------------------------- aggregate buffers: properties
\* Whether bytes is a run of the input: each byte the one written after the
\* byte before it.
IsRun(bytes) == \A i \in 1..Len(bytes) - 1 : bytes[i + 1] = bytes[i] + 1

\* The step is operation op, and it returned.
AggDid(op) == a_last'.op = op /\ a_last'.out = "ok" /\ a_pc' = "live"

\* Where in the last block of inner its filled part ends.
FilledEndInLast(inner) ==
    inner.off + inner.len - (Len(inner.blocks) - 1) * AggBlockSize

\* The buffer split or split_at returned is over the last block of the one
\* it was made from.
Shares(old, new) ==
    /\ Len(old.blocks) > 0 /\ Len(new.blocks) > 0
    /\ new.blocks[1] = old.blocks[Len(old.blocks)]

\* The cells of the pool that a step wrote.
WrittenCells ==
    {c \in (DOMAIN a_mem) \X (1..AggBlockSize) :
        a_mem'[c[1]][c[2]] # a_mem[c[1]][c[2]]}

\* The cell at logical offset k of inner.
CellAt(inner, k) ==
    <<inner.blocks[((inner.off + k) \div AggBlockSize) + 1],
      ((inner.off + k) % AggBlockSize) + 1>>

\* C34: the bytes a slice shows never change: every slice held yields, byte
\* for byte, what it yielded when it was taken. A buffer returned by split
\* or split_at over the last block of the old one starts writing at or
\* after the place where the old buffer's filled part ended, and every
\* write of a buffer goes to the cells from its filled end on.
C34_SlicesImmutable ==
    /\ [](\A s \in a_slices :
             to_vec(a_mem, SliceInner(s), s.off, s.len) = s.snap)
    /\ [][/\ (AggDid("split") \/ AggDid("split_at")) /\ Shares(a_inner, a_inner')
             => a_inner'.off + a_inner'.len >= FilledEndInLast(a_inner)
          /\ \A c \in WrittenCells :
                \E k \in a_inner.len..a_inner'.len - 1 :
                    c = CellAt(a_inner, k)]_vars

\* A slice of the buffer before the split is held, the buffer split off
\* shares its block, and bytes have been written into it since.
C34_Witness ==
    /\ a_pc = "live" /\ a_last.op = "fill" /\ a_inner.off > 0
    /\ \E s \in a_slices :
          /\ ~s.live /\ s.len > 0
          /\ \E i \in DOMAIN s.inner.blocks :
                s.inner.blocks[i] = a_inner.blocks[1]

\* C35: AggBuf::split_at(rest) returns a buffer whose filled bytes are the
\* bytes of the old one from the start of rest to its filled end, and whose
\* room is the unfilled end of the old buffer's last block; it returns a
\* buffer without blocks when rest starts at the end of the last block. Over
\* a run of parse and split_at, the buffer and every slice held show a run
\* of the input, the buffer's ending at the last byte written.
C35_SplitAtKeepsRest ==
    /\ [][AggDid("split_at") =>
             LET rest_off == Len(a_data) - Len(a_data')
                 blocks == Len(a_inner.blocks)
             IN  /\ a_inner'.len = a_inner.len - rest_off
                 /\ to_vec(a_mem', a_inner', 0, a_inner'.len)
                       = SubSeq(a_data, rest_off + 1, Len(a_data))
                 /\ IF a_inner.off + rest_off = blocks * AggBlockSize
                    THEN a_inner' = NoBlocks
                    ELSE /\ Shares(a_inner, a_inner')
                         /\ Len(a_inner'.blocks) = 1
                         /\ a_inner'.off + a_inner'.len
                               = FilledEndInLast(a_inner)
                         /\ capacity(a_inner') - a_inner'.len
                               = capacity(a_inner) - a_inner.len]_vars
    /\ [](a_impl = "AggBuf" /\ a_pc = "live" =>
             /\ to_vec(a_mem, a_inner, 0, a_inner.len) = a_data
             /\ IsRun(a_data)
             /\ a_data # <<>> => a_data[Len(a_data)] = Written(a_mem)
             /\ \A s \in a_slices : IsRun(s.snap))

\* A second split_at, in the second block of a buffer that was itself split
\* off: the message parsed before it crosses the two blocks, and bytes of
\* the next one are left in the buffer.
C35_Witness ==
    /\ a_impl = "AggBuf" /\ a_pc = "live" /\ a_last.op = "split_at"
    /\ a_data # <<>> /\ a_inner.off > 0
    /\ \E s \in a_slices :
          /\ ~s.live /\ s.inner.off > 0 /\ Len(s.inner.blocks) = 2
          /\ s.off = 0 /\ s.len >= 2

\* C38: grow_if_needed adds one block when len = capacity and leaves the
\* buffer as it is otherwise, in AggBuf and in AggregateBuf.
C38_GrowOnlyWhenFull ==
    [][AggDid("grow_if_needed") =>
          IF a_inner.len = capacity(a_inner)
          THEN /\ Len(a_inner'.blocks) = Len(a_inner.blocks) + 1
               /\ a_inner'.off = a_inner.off /\ a_inner'.len = a_inner.len
          ELSE a_inner' = a_inner /\ a_mem' = a_mem]_vars

\* C39: off + len <= blocks * block_size and off <= block_size in every
\* state, and no subtraction of capacity(), split() and split_at() goes
\* below zero.
C39_BoundsNoUnderflow ==
    /\ ~a_underflow
    /\ a_inner.off + a_inner.len <= Len(a_inner.blocks) * AggBlockSize
    /\ a_inner.off <= AggBlockSize

OccursAt(hay, needle, i) ==
    /\ i + Len(needle) <= Len(hay)
    /\ SubSeq(hay, i + 1, i + Len(needle)) = needle

\* The index of the first occurrence of needle in hay, -1 if there is none.
FirstOccurrence(hay, needle) ==
    IF \E i \in 0..Len(hay) : OccursAt(hay, needle, i)
    THEN CHOOSE i \in 0..Len(hay) :
            /\ OccursAt(hay, needle, i)
            /\ \A j \in 0..i - 1 : ~OccursAt(hay, needle, j)
    ELSE -1

\* C36: find_substring returns Some(i) for the first index i at which the
\* needle occurs in the slice, and None if and only if it occurs nowhere.
C36_FindsFirstOccurrence ==
    f_result # -2 => f_result = FirstOccurrence(f_hay, f_needle)


\* ------------------------------------- AggBuf based H1Body: properties
\* C40: `assert!(avail > 0)` holds whenever next_chunk reaches it, a read
\* that gives 0 bytes before len bytes were received makes next_chunk return
\* an error, and read never exceeds len.
C40_AssertHolds ==
    /\ lg_pc # "assert_failed"
    /\ lg_n = 0 =>
          /\ lg_pc = "idle"
          /\ lg_log # <<>> /\ lg_log[Len(lg_log)] = "Err"
    /\ lg_read <= lg_len

=============================================================================
